---- MODULE Spec2Model ----
(***************************************************************************)
(* State-machine model of the wpok client library: the submission engine   *)
(* (src/submit/submit.js) over the key-value store and the AMQP channel,   *)
(* and the wait engine (src/watch/wait.js) over the completion connector   *)
(* (RedisConnector).                                                       *)
(*                                                                         *)
(* Granularity: one action per segment of code between two awaited I/O     *)
(* operations.  A store operation takes effect and its continuation runs   *)
(* in the same step (the client holds one store connection, replies come   *)
(* back in request order).                                                 *)
(***************************************************************************)
EXTENDS Naturals, Integers, Sequences, FiniteSets, TLC

\* ------------------------------------------------------------------ bounds
\* Largest number of plan items planBatch yields in one createBatch call.
MaxPlan == 3
\* Number of tasks of the submitted work the wait engine is run against.
MaxTasks == 2
\* Number of concurrent waitForTask calls.
MaxWaiters == 2
\* The clock advances in steps of TickMs milliseconds, MaxTicks times at most.
TickMs == 500
MaxTicks == 2
\* Largest ratePerSec a createBatch call is given.
MaxRate == 2
\* Number of checkQueue/publish/publishBurst calls made on one AmqpConnector.
MaxOps == 3
\* Number of amqplib.connect calls the connector can make in a run.
MaxConns == 2
\* Number of channel opens (_initialize bodies) the connector can start in a run.
MaxChans == 3
\* Longest args vector and longest basenames vector expandInputPlaceholders is given.
MaxArgs == 2
MaxNames == 2
\* Longest work id, in characters, a task id is minted for.
MaxWorkIdLen == 3
\* Largest number of objects under the base prefix of the bucket planBatch lists.
MaxObjects == 4
\* Largest batch.maxPerTask.
MaxPack == 2
\* Number of prefix levels below the base prefix, and largest batch.prefixDepth.
MaxDepth == 2
\* Largest number of child prefixes of one prefix.
MaxWidth == 2

\* ------------------------------------------------------------- value sets
None == "none"
\* Work ids a caller can supply (TaskClient argument, manifest.metadata.workId).
WorkIds == {"w1", "w2"}
\* generateWorkId('solo'): the provided string is returned unchanged.
SoloWorkId == "solo"
\* generateWorkId() with no argument mints `batch-<millis>-<6 hex>`; the two
\* mints of one run (client construction, createBatch) are distinct values.
ClientMintedWorkId == "batch-c"
BatchMintedWorkId == "batch-s"
AllWorkIds == WorkIds \cup {SoloWorkId, ClientMintedWorkId, BatchMintedWorkId}
\* spec.taskType: the queue the task ids are published to.
QueueName == "q1"
\* Task ids: generateTaskId(workId) = `work:<workId>:task:<millis>-<8 hex>`;
\* n stands for the <millis>-<8 hex> suffix, distinct for every mint.
TaskIdSpace == [work : AllWorkIds, n : 1..(MaxPlan + 1)]
\* The value of a taskId variable that holds no task id yet.
NoTask == [work |-> None, n |-> 0]

VARIABLES
    \* --- call inputs and environment
    clientWorkId,    \* client.workId (TaskClient constructor)
    manifestWorkId,  \* manifest.metadata.workId or None
    mode,            \* "single" (createSingle) or "batch" (createBatch)
    stopOnError,     \* createBatch option
    planLen,         \* number of plan items planBatch(spec) yields
    queueExists,     \* whether the broker has the queue spec.taskType
    \* --- the call in progress
    pc,              \* position of the createSingle/createBatch call
    workId,          \* resolved work id
    idx,             \* index of the plan item in hand (0 before the first)
    taskId,          \* task id in hand (None before the first mint)
    results,         \* createBatch's results array
    ret,             \* value returned / error raised by the call
    nonce,           \* number of task ids minted so far
    \* --- key-value store
    msgList,         \* key <taskId>_msg: the list of descriptors pushed
    workSet,         \* key work:<workId>:tasks: set of task ids
    \* --- queue side
    queue,           \* messages delivered to the broker queue, in order
    chanBuffer,      \* messages accepted by sendToQueue, not yet flushed
    \* --- history
    calls,           \* store operations the call issued: <<op, key, member>>
    sends,           \* payloads handed to ch.sendToQueue, in order
    pubFailed,       \* plan indices whose publishBurst raised
    \* --- createBatch rate limiter
    ratePerSec,      \* createBatch option (0: absent)
    tokens,          \* tokens left in the window
    windowStart,     \* Date.now() at the start of the window
    sleepUntil,      \* when the limiter's setTimeout is due
    windowNo,        \* history: number of window resets so far
    pubLog,          \* history: per sendToQueue, the time and the window it fell in
    undrained,       \* history: plan index of the last send that returned false
                     \* with no 'drain' since (0: none)
    \* --- environment
    now,             \* Date.now(), in milliseconds since the start of the run
    storeOk,         \* FALSE: store operations of the wait side may fail in this run
    \* --- key-value store, completion side
    exitCode,        \* key <taskId>: the member the worker wrote, or None
    completionSet,   \* key wf:<workId>:tasksPendingCompletionHandling
    workerPc,        \* per task: position of the worker that took it
    \* --- RedisConnector
    taskPromiseResolves, \* resolver table: task id -> the call whose promise it settles
    running,         \* RedisConnector.running
    connectorRunning,\* TaskClient._connectorRunning
    loopPc,          \* position of RedisConnector.run
    loopTask,        \* run: taskId
    loopResult,      \* run: taskResult[1]
    loopResolve,     \* run: promiseResolve (<<>> when none is held)
    \* --- waitForTask calls
    wpc,             \* per call: position
    wTask,           \* per call: taskId
    wTimeout,        \* per call: whether opts.timeoutSec > 0
    wRes,            \* per call: the value returned
    timer,           \* per call: the timeout timer of sleepUnref
    firedAfterWrite, \* history, per call: the exit code was in the store when the timer fired
    \* --- waitForMany call
    manyPc,          \* position
    failFast,        \* opts.failFast
    manyTimeout,     \* whether opts.timeoutSec > 0
    manyIds,         \* the distinct ids of taskIds
    done,            \* the done array
    pending,         \* the pending set
    manyTimer,       \* the overall timer
    manyRet,         \* the value the returned promise settled with
    \* --- watchWork call
    watchPc,         \* position
    watchWorkId,     \* the workId argument
    optExpected,     \* opts.expected (0: absent)
    timeoutMs,       \* opts.timeoutSec * 1000
    idleMs,          \* opts.idleSec * 1000
    expected,        \* expected
    taskIds,         \* the snapshot, as a sequence
    watchResults,    \* the results array
    perTask,         \* ids whose perTask entry still holds a promise
    cursor,          \* position of the for loop over perTask
    start,           \* start
    lastNew,         \* lastNew
    wakeAt,          \* when the sleepUnref(pollMs) in progress is due
    recordedAt,      \* history: when the latest entry was pushed to results
    watchRet,        \* the value returned
    \* --- AmqpConnector
    conn,            \* this.conn: the connection held (0: null)
    connPromise,     \* this.connPromise: the connect it stands for (0: null)
    channels,        \* this.channels: queue name -> channel (0: no entry)
    channelPromises, \* this.channelPromises: queue name -> channel open (0: no entry)
    \* --- broker side and operations in progress
    connState,       \* per amqplib.connect call: its position, then the connection's state
    chanState,       \* per _initialize body: its position, then the channel's state
    chanQueue,       \* per _initialize body: queueName
    chanConn,        \* per _initialize body: the connect awaited, then the connection used
    bufferFull,      \* whether sendToQueue answers false (write buffer full)
    amqpOp,          \* per checkQueue/publish/publishBurst call: its position and locals
    \* --- expandInputPlaceholders call
    tplPc,           \* position
    tplArgs,         \* args
    tplBasenames,    \* basenames
    tplOut,          \* the array returned
    \* --- task id round trip
    idPc,            \* position
    idWorkId,        \* the workId given to generateTaskId
    idMinter,        \* the module whose generateTaskId minted the task id
    idTaskId,        \* the task id minted
    idExtracted,     \* what extractWorkId returned for it
    \* --- planBatch call and the bucket it lists
    planSpec,        \* the spec argument: io.batch options, io.inputs, args
    bucket,          \* the bucket: number of objects, fan-out per prefix level, page sizes
    planPc,          \* position of planBatch
    plan,            \* the plan items yielded so far
    pack,            \* planBatch: pack
    loToken,         \* listObjects: ContinuationToken (0: undefined)
    loYielded,       \* listObjects: yielded
    lpLevel,         \* listPrefixesAtDepth: levelPrefixes
    lpNext,          \* listPrefixesAtDepth: next
    lpD,             \* listPrefixesAtDepth: d
    lpIdx,           \* listPrefixesAtDepth: position of the for loop over levelPrefixes
    lpRet,           \* listPrefixesAtDepth: the array returned
    requests         \* history: number of ListObjectsV2 requests sent

subVars == <<clientWorkId, manifestWorkId, mode, stopOnError, planLen, queueExists,
             pc, workId, idx, taskId, results, ret, nonce, msgList, workSet,
             queue, chanBuffer, calls, sends, pubFailed,
             ratePerSec, tokens, windowStart, sleepUntil, windowNo, pubLog, undrained>>

waitVars == <<exitCode, completionSet, workerPc, taskPromiseResolves, running,
              connectorRunning, loopPc, loopTask, loopResult, loopResolve,
              wpc, wTask, wTimeout, wRes, timer, firedAfterWrite>>

manyVars == <<manyPc, failFast, manyTimeout, manyIds, done, pending, manyTimer, manyRet>>

watchVars == <<watchPc, watchWorkId, optExpected, timeoutMs, idleMs, expected, taskIds,
               watchResults, perTask, cursor, start, lastNew, wakeAt, recordedAt,
               watchRet>>

amqpVars == <<conn, connPromise, channels, channelPromises, connState, chanState,
              chanQueue, chanConn, bufferFull, amqpOp>>

\* The library parts beside the submission and wait engines.
tplVars == <<tplPc, tplArgs, tplBasenames, tplOut>>

idVars == <<idPc, idWorkId, idMinter, idTaskId, idExtracted>>

planVars == <<planSpec, bucket, planPc, plan, pack, loToken, loYielded, lpLevel, lpNext,
              lpD, lpIdx, lpRet, requests>>

libVars == <<amqpVars, tplVars, idVars, planVars>>

\* The library parts beside the connector.
notAmqpVars == <<tplVars, idVars, planVars>>

\* The submission and wait engines and their environment.
coreVars == <<subVars, waitVars, manyVars, watchVars, now, storeOk>>

vars == <<subVars, waitVars, manyVars, watchVars, now, storeOk, libVars>>

\* What the submission engine never touches.
notSubVars == <<waitVars, manyVars, watchVars, now, storeOk, libVars>>

limVars == <<tokens, windowStart, sleepUntil, windowNo>>

Waiters == 1..MaxWaiters

\* submit.js 66 and 71: the length of the limiter's window, in milliseconds.
WindowMs == 1000

\* The null a wait result carries as code when no exit code was read.
NullCode == -1
\* Exit codes a worker writes (decimal strings, members of the <taskId> set).
CodeStrs == {"0", "1"}

\* ------------------------------------------------------------ pure helpers
\* Number.parseInt(String(v), 10) followed by the Number.isFinite test.
ParseInt(v) == CASE v = "0" -> 0 [] v = "1" -> 1 [] OTHER -> NullCode

\* TaskClient.constructor: this.workId = workId || generateWorkId()
TaskClientWorkId(arg) == IF arg # None THEN arg ELSE ClientMintedWorkId

\* generateTaskId(workId); k is the number of ids minted before.
generateTaskId(w, k) == [work |-> w, n |-> k + 1]

\* createSingle: manifest?.metadata?.workId || generateWorkId('solo')
createSingleWorkId(mw) == IF mw # None THEN mw ELSE SoloWorkId

\* createBatch: manifest?.metadata?.workId || generateWorkId()
createBatchWorkId(mw) == IF mw # None THEN mw ELSE BatchMintedWorkId

\* buildTaskMsgFromPlan(spec, plan, taskId): the fields the model follows.
buildTaskMsgFromPlan(source, t) ==
    [taskId |-> t, taskType |-> QueueName, source |-> source]

\* Plan item i of the lazy sequence: its `source` (the planner's own content is
\* modelled with the planner).
PlanSource(i) == IF mode = "single" THEN "single" ELSE i

Count(s, x) == Cardinality({i \in 1..Len(s) : s[i] = x})

\* Key <taskId>_msg exists in the store.
HasDescriptor(t) == Len(msgList[t]) > 0

\* ------------------------------------------------------------------- Init
InitStore ==
    /\ msgList = [t \in TaskIdSpace |-> <<>>]
    /\ workSet = [w \in AllWorkIds |-> {}]

\* RedisConnector.constructor (part_003 12-19), TaskClient.constructor (index.js
\* 47-48): empty resolver table, loop not started; no wait call made; no worker
\* has touched the store.
InitWaitSide ==
    /\ exitCode = [t \in TaskIdSpace |-> None]
    /\ completionSet = [w \in AllWorkIds |-> {}]
    /\ workerPc = [t \in TaskIdSpace |-> "queued"]
    /\ taskPromiseResolves = <<>>
    /\ running = FALSE
    /\ connectorRunning = FALSE
    /\ loopPc = "off"
    /\ loopTask = NoTask
    /\ loopResult = None
    /\ loopResolve = <<>>
    /\ wpc = [w \in Waiters |-> "idle"]
    /\ wTask = [w \in Waiters |-> NoTask]
    /\ wTimeout = [w \in Waiters |-> FALSE]
    /\ wRes = [w \in Waiters |-> [state |-> "NONE", code |-> NullCode]]
    /\ timer = [w \in Waiters |-> "off"]
    /\ firedAfterWrite = [w \in Waiters |-> FALSE]

\* No waitForMany call made.
InitMany ==
    /\ manyPc = "idle"
    /\ failFast = FALSE
    /\ manyTimeout = FALSE
    /\ manyIds = {}
    /\ done = <<>>
    /\ pending = {}
    /\ manyTimer = "off"
    /\ manyRet = [state |-> "NONE", done |-> <<>>, pending |-> {}]

\* No watchWork call made.
InitWatch ==
    /\ watchPc = "idle"
    /\ watchWorkId = None
    /\ optExpected = 0
    /\ timeoutMs = 0
    /\ idleMs = 0
    /\ expected = 0
    /\ taskIds = <<>>
    /\ watchResults = <<>>
    /\ perTask = {}
    /\ cursor = 0
    /\ start = 0
    /\ lastNew = 0
    /\ wakeAt = 0
    /\ recordedAt = 0
    /\ watchRet = [state |-> "NONE", total |-> 0, results |-> <<>>]

\* The limiter's locals before createBatch reaches submit.js 54-55.
\* Queue names the connector's operations are called with.
QueueNames == {"q1", "q2"}
ConnIds == 1..MaxConns
ChanIds == 1..MaxChans
OpIds == 1..MaxOps

\* A checkQueue/publish/publishBurst call that has not been made yet.
\* kind, q: the method and its queueName; k: the channel open it awaits;
\* ch: the channel this.channels.get(queueName) gave it; val: checkQueue's
\* result; dropped (history): the connections already dropped when it started.
IdleOp == [pc |-> "idle", kind |-> None, q |-> None, k |-> 0, ch |-> 0,
           val |-> None, dropped |-> {}]

\* amqpConnector.js 16-31: the constructor.
InitAmqp ==
    /\ conn = 0
    /\ connPromise = 0
    /\ channels = [q \in QueueNames |-> 0]
    /\ channelPromises = [q \in QueueNames |-> 0]
    /\ connState = [c \in ConnIds |-> "unused"]
    /\ chanState = [k \in ChanIds |-> "unused"]
    /\ chanQueue = [k \in ChanIds |-> None]
    /\ chanConn = [k \in ChanIds |-> 0]
    /\ bufferFull = FALSE
    /\ amqpOp = [o \in OpIds |-> IdleOp]

\* No expandInputPlaceholders call is made.
InitTplIdle ==
    /\ tplPc = "idle"
    /\ tplArgs = <<>>
    /\ tplBasenames = <<>>
    /\ tplOut = <<>>

\* A JavaScript null.
NullVal == [t |-> "null", s |-> <<>>, n |-> 0]

\* No task id is minted.
InitIdsIdle ==
    /\ idPc = "idle"
    /\ idWorkId = <<>>
    /\ idMinter = None
    /\ idTaskId = <<>>
    /\ idExtracted = NullVal

\* An option that is absent from the manifest.
Absent == -1

\* planBatch is not called.
InitPlanIdle ==
    /\ planSpec = [enabled |-> FALSE, grouping |-> None, prefixDepth |-> Absent,
                   maxPerTask |-> Absent, inputs |-> <<>>, args |-> <<>>]
    /\ bucket = [nObj |-> 0, fanout |-> <<>>, objPage |-> 1, prefPage |-> 1]
    /\ planPc = "idle"
    /\ plan = <<>>
    /\ pack = <<>>
    /\ loToken = 0
    /\ loYielded = 0
    /\ lpLevel = <<>>
    /\ lpNext = <<>>
    /\ lpD = 0
    /\ lpIdx = 0
    /\ lpRet = <<>>
    /\ requests = 0

InitLib ==
    /\ InitAmqp
    /\ InitTplIdle
    /\ InitIdsIdle
    /\ InitPlanIdle

InitLimiter ==
    /\ tokens = 0
    /\ windowStart = 0
    /\ sleepUntil = 0
    /\ windowNo = 0

\* The engines' part of the state at the start of a createSingle/createBatch call.
InitEngines ==
    /\ InitLimiter
    /\ pubLog = <<>>
    /\ undrained = 0
    /\ now = 0
    /\ storeOk = TRUE
    /\ InitMany
    /\ InitWatch
    /\ \E arg \in {None, "w1"} : clientWorkId = TaskClientWorkId(arg)
    /\ manifestWorkId \in WorkIds \cup {None}
    /\ queueExists \in BOOLEAN
    /\ \/ /\ mode = "single" /\ stopOnError = FALSE /\ planLen = 1
       \/ /\ mode = "batch" /\ stopOnError \in BOOLEAN /\ planLen \in 0..MaxPlan
    /\ pc = "call"
    /\ workId = None
    /\ idx = 0
    /\ taskId = None
    /\ results = <<>>
    /\ ret = None
    /\ nonce = 0
    /\ InitStore
    /\ queue = <<>>
    /\ chanBuffer = <<>>
    /\ calls = {}
    /\ sends = <<>>
    /\ pubFailed = {}
    /\ InitWaitSide

InitCall ==
    /\ InitLib
    /\ InitEngines

\* A createSingle or createBatch call without ratePerSec.
InitSubmit ==
    /\ ratePerSec = 0
    /\ InitCall

\* A createBatch call with ratePerSec = r > 0, of a client and a manifest
\* without work id (the limiter reads neither).
InitRate ==
    /\ ratePerSec \in 1..MaxRate
    /\ InitCall
    /\ mode = "batch"
    /\ clientWorkId = ClientMintedWorkId
    /\ manifestWorkId = None

inputVars == <<clientWorkId, manifestWorkId, mode, stopOnError, planLen, queueExists,
              ratePerSec>>

\* ------------------------------------------------------- createSingle steps
\* submit.js 22-35: resolve the work id, mint the task id, build the message,
\* then await checkQueueOrThrow.
createSingleCall ==
    /\ UNCHANGED <<notSubVars, limVars, pubLog, undrained>>
    /\ pc = "call" /\ mode = "single"
    /\ workId' = createSingleWorkId(manifestWorkId)
    /\ taskId' = generateTaskId(workId', nonce)
    /\ nonce' = nonce + 1
    /\ idx' = 1
    /\ pc' = "check"
    /\ UNCHANGED <<inputVars, results, ret, msgList, workSet, queue, chanBuffer,
                   calls, sends, pubFailed>>

\* submit.js 47-51: resolve queue and work id, then await checkQueueOrThrow.
createBatchCall ==
    /\ UNCHANGED <<notSubVars, limVars, pubLog, undrained>>
    /\ pc = "call" /\ mode = "batch"
    /\ workId' = createBatchWorkId(manifestWorkId)
    /\ pc' = "check"
    /\ UNCHANGED <<inputVars, idx, taskId, results, ret, nonce, msgList, workSet,
                   queue, chanBuffer, calls, sends, pubFailed>>

\* Variant of checkQueueOrThrow that calls checkQueue and drops its answer:
\* a missing queue no longer stops the call.
checkQueueAnswerDropped ==
    /\ UNCHANGED <<notSubVars, sleepUntil, windowNo, pubLog, undrained>>
    /\ pc = "check"
    /\ \/ /\ pc' = IF mode = "single" THEN "lpush" ELSE "next"
          /\ ret' = ret
       \/ /\ pc' = "raised"
          /\ ret' = [error |-> "AMQP", queue |-> QueueName]
    /\ IF pc' = "next"
       THEN tokens' = ratePerSec /\ windowStart' = now
       ELSE UNCHANGED <<tokens, windowStart>>
    /\ UNCHANGED <<inputVars, workId, idx, taskId, results, nonce, msgList, workSet,
                   queue, chanBuffer, calls, sends, pubFailed>>

\* amqpConnector.js 137-164: checkQueue answers true, false on a 404, or raises
\* another error; checkQueueOrThrow turns false into ENOQUEUE:<name>.  On success
\* createSingle goes on to lPush (submit.js 36), createBatch sets up the limiter
\* (submit.js 54-55: tokens, windowStart = Date.now()) and enters its loop.
checkQueueOrThrow ==
    /\ UNCHANGED <<notSubVars, sleepUntil, windowNo, pubLog, undrained>>
    /\ pc = "check"
    /\ \/ /\ queueExists
          /\ pc' = IF mode = "single" THEN "lpush" ELSE "next"
          /\ ret' = ret
       \/ /\ ~queueExists
          /\ pc' = "raised"
          /\ ret' = [error |-> "ENOQUEUE", queue |-> QueueName]
       \/ /\ pc' = "raised"
          /\ ret' = [error |-> "AMQP", queue |-> QueueName]
    /\ IF pc' = "next"
       THEN tokens' = ratePerSec /\ windowStart' = now
       ELSE UNCHANGED <<tokens, windowStart>>
    /\ UNCHANGED <<inputVars, workId, idx, taskId, results, nonce, msgList, workSet,
                   queue, chanBuffer, calls, sends, pubFailed>>

\* submit.js 57-61 and 91: take the next plan item, mint its task id, build its
\* message and await lPush; or, the sequence exhausted, return.
nextPlanItem ==
    /\ UNCHANGED <<notSubVars, limVars, pubLog, undrained>>
    /\ pc = "next"
    /\ IF idx < planLen
       THEN /\ idx' = idx + 1
            /\ taskId' = generateTaskId(workId, nonce)
            /\ nonce' = nonce + 1
            /\ pc' = "lpush"
            /\ ret' = ret
       ELSE /\ pc' = "returned"
            /\ ret' = [workId |-> workId, tasks |-> results]
            /\ UNCHANGED <<idx, taskId, nonce>>
    /\ UNCHANGED <<inputVars, workId, results, msgList, workSet, queue, chanBuffer,
                   calls, sends, pubFailed>>

\* Variant of limiter without the sleep of submit.js 70-75: out of tokens, the
\* call goes on to publish.
limiterNeverSleeps ==
    IF mode = "single" \/ ratePerSec = 0
    THEN /\ pc' = "publish"
         /\ UNCHANGED limVars
    ELSE LET fresh == now - windowStart >= WindowMs
             ws == IF fresh THEN now ELSE windowStart
             tk == IF fresh THEN ratePerSec ELSE tokens
         IN /\ windowStart' = ws
            /\ windowNo' = IF fresh THEN windowNo + 1 ELSE windowNo
            /\ pc' = "publish"
            /\ sleepUntil' = sleepUntil
            /\ tokens' = tk - 1

\* submit.js 64-77, up to the publish or to the await of the sleep: a window
\* older than WindowMs is replaced by a fresh one with ratePerSec tokens; with
\* no token left the call sleeps for the rest of the window; else it takes a
\* token.  Skipped without ratePerSec (and by createSingle, which has none).
limiter ==
    IF mode = "single" \/ ratePerSec = 0
    THEN /\ pc' = "publish"
         /\ UNCHANGED limVars
    ELSE LET fresh == now - windowStart >= WindowMs
             ws == IF fresh THEN now ELSE windowStart
             tk == IF fresh THEN ratePerSec ELSE tokens
         IN /\ windowStart' = ws
            /\ windowNo' = IF fresh THEN windowNo + 1 ELSE windowNo
            /\ IF tk <= 0
               THEN /\ pc' = "limiter"
                    /\ sleepUntil' = now + (WindowMs - (now - ws))
                    /\ tokens' = tk
               ELSE /\ pc' = "publish"
                    /\ sleepUntil' = sleepUntil
                    /\ tokens' = tk - 1

\* submit.js 72-76: the limiter's sleep ends (a timer never fires early): a
\* fresh window starts now, and the call takes its token.
limiterWake ==
    /\ UNCHANGED <<notSubVars, pubLog, undrained>>
    /\ pc = "limiter"
    /\ now >= sleepUntil
    /\ windowStart' = now
    /\ windowNo' = windowNo + 1
    /\ tokens' = ratePerSec - 1
    /\ pc' = "publish"
    /\ UNCHANGED <<inputVars, workId, idx, taskId, results, ret, nonce, msgList, workSet,
                   queue, chanBuffer, calls, sends, pubFailed, sleepUntil>>

\* The clock advances.
tick ==
    /\ now < MaxTicks * TickMs
    /\ now' = now + TickMs
    /\ UNCHANGED <<subVars, waitVars, manyVars, watchVars, storeOk, libVars>>

\* submit.js 36 / 61: await client.rcl.lPush(`${taskId}_msg`, JSON.stringify(msg)).
\* A store error propagates out of the call.  In createBatch the limiter runs
\* next, in createSingle the publish.
lPushDescriptor ==
    /\ UNCHANGED <<notSubVars, pubLog, undrained>>
    /\ pc = "lpush"
    /\ calls' = calls \cup {<<"lPush", "msg", taskId>>}
    /\ \/ /\ msgList' = [msgList EXCEPT ![taskId] =
                            <<buildTaskMsgFromPlan(PlanSource(idx), taskId)>> \o @]
          /\ limiter
          /\ ret' = ret
       \/ /\ msgList' = msgList
          /\ pc' = "raised"
          /\ ret' = [error |-> "STORE", queue |-> QueueName]
          /\ UNCHANGED limVars
    /\ UNCHANGED <<inputVars, workId, idx, taskId, results, nonce, workSet,
                   queue, chanBuffer, sends, pubFailed>>

\* ----------------------------------------------------------- publishBurst
\* What follows a publishBurst that returned: createSingle returns {taskId}
\* (submit.js 39); createBatch pushes {taskId, source} (submit.js 81).
publishReturned ==
    IF mode = "single"
    THEN /\ pc' = "returned"
         /\ ret' = [taskId |-> taskId]
         /\ results' = results
    ELSE /\ pc' = "next"
         /\ ret' = ret
         /\ results' = Append(results, [taskId |-> taskId, source |-> PlanSource(idx),
                                        error |-> None])

\* Variant of publishRaised that re-raises under stopOnError before the
\* rollback instead of after it.
publishRaisedThrowsFirst ==
    /\ pubFailed' = pubFailed \cup {idx}
    /\ results' = results
    /\ IF mode = "single" \/ stopOnError
       THEN /\ pc' = "raised"
            /\ ret' = [error |-> "PUBLISH", queue |-> QueueName]
       ELSE /\ pc' = "rollback"
            /\ ret' = ret

\* What follows a publishBurst that raised: createSingle lets the error out
\* (submit.js 37); createBatch awaits del(<taskId>_msg) (submit.js 82-84).
publishRaised ==
    /\ pubFailed' = pubFailed \cup {idx}
    /\ results' = results
    /\ IF mode = "single"
       THEN /\ pc' = "raised"
            /\ ret' = [error |-> "PUBLISH", queue |-> QueueName]
       ELSE /\ pc' = "rollback"
            /\ ret' = ret

\* Variant of publishBurstSend that does not await 'drain' after a send that
\* returned false (the behaviour of publish, amqpConnector.js 174-181).
publishBurstSendNoWait ==
    /\ UNCHANGED <<notSubVars, limVars>>
    /\ pc = "publish"
    /\ \/ /\ sends' = Append(sends, taskId)
          /\ pubLog' = Append(pubLog, [at |-> now, window |-> windowNo])
          /\ queue' = Append(queue, taskId)
          /\ chanBuffer' = chanBuffer
          /\ pubFailed' = pubFailed
          /\ undrained' = undrained
          /\ publishReturned
       \/ /\ sends' = Append(sends, taskId)
          /\ pubLog' = Append(pubLog, [at |-> now, window |-> windowNo])
          /\ chanBuffer' = Append(chanBuffer, taskId)
          /\ undrained' = idx
          /\ queue' = queue
          /\ pubFailed' = pubFailed
          /\ publishReturned
       \/ /\ UNCHANGED <<sends, pubLog, queue, chanBuffer, undrained>>
          /\ publishRaised
    /\ UNCHANGED <<inputVars, workId, idx, taskId, nonce, msgList, workSet, calls>>

\* amqpConnector.js 191-205, up to the first suspension: _initialize raises or
\* sendToQueue throws (nothing sent); sendToQueue returns true (the frame is
\* written out); sendToQueue returns false (the frame sits in the write buffer
\* and publishBurst awaits 'drain').
publishBurstSend ==
    /\ UNCHANGED <<notSubVars, limVars>>
    /\ pc = "publish"
    /\ \/ /\ sends' = Append(sends, taskId)
          /\ pubLog' = Append(pubLog, [at |-> now, window |-> windowNo])
          /\ queue' = Append(queue, taskId)
          /\ chanBuffer' = chanBuffer
          /\ pubFailed' = pubFailed
          /\ undrained' = undrained
          /\ publishReturned
       \/ /\ sends' = Append(sends, taskId)
          /\ pubLog' = Append(pubLog, [at |-> now, window |-> windowNo])
          /\ chanBuffer' = Append(chanBuffer, taskId)
          /\ undrained' = idx
          /\ pc' = "drain"
          /\ UNCHANGED <<queue, pubFailed, results, ret>>
       \/ /\ UNCHANGED <<sends, pubLog, queue, chanBuffer, undrained>>
          /\ publishRaised
    /\ UNCHANGED <<inputVars, workId, idx, taskId, nonce, msgList, workSet, calls>>

\* amqpConnector.js 200: once(ch, 'drain') resolves: the buffer was flushed.
publishBurstDrain ==
    /\ UNCHANGED <<notSubVars, limVars, pubLog>>
    /\ pc = "drain"
    /\ undrained' = 0
    /\ queue' = queue \o chanBuffer
    /\ chanBuffer' = <<>>
    /\ pubFailed' = pubFailed
    /\ publishReturned
    /\ UNCHANGED <<inputVars, workId, idx, taskId, nonce, msgList, workSet, calls, sends>>

\* amqpConnector.js 200: once(ch, 'drain') rejects because the channel emitted
\* 'error' first.  The buffered frame had been handed to the socket: the broker
\* may or may not have taken it before the channel died.
publishBurstChannelError ==
    /\ UNCHANGED <<notSubVars, limVars, pubLog, undrained>>
    /\ pc = "drain"
    /\ \/ queue' = queue \o chanBuffer
       \/ queue' = queue
    /\ chanBuffer' = <<>>
    /\ publishRaised
    /\ UNCHANGED <<inputVars, workId, idx, taskId, nonce, msgList, workSet, calls, sends>>

\* Variant of rollbackAfterPublishError whose record lacks the error field.
rollbackPushesPlainEntry ==
    /\ UNCHANGED <<notSubVars, limVars, pubLog, undrained>>
    /\ pc = "rollback"
    /\ calls' = calls \cup {<<"del", "msg", taskId>>}
    /\ \/ msgList' = [msgList EXCEPT ![taskId] = <<>>]
       \/ msgList' = msgList
    /\ results' = Append(results, [taskId |-> taskId, source |-> PlanSource(idx),
                                   error |-> None])
    /\ IF stopOnError
       THEN /\ pc' = "raised"
            /\ ret' = [error |-> "PUBLISH", queue |-> QueueName]
       ELSE /\ pc' = "next"
            /\ ret' = ret
    /\ UNCHANGED <<inputVars, workId, idx, taskId, nonce, workSet, queue, chanBuffer,
                   sends, pubFailed>>

\* Variant of rollbackAfterPublishError that forgets results.push(rec).
rollbackDropsEntry ==
    /\ UNCHANGED <<notSubVars, limVars, pubLog, undrained>>
    /\ pc = "rollback"
    /\ calls' = calls \cup {<<"del", "msg", taskId>>}
    /\ \/ msgList' = [msgList EXCEPT ![taskId] = <<>>]
       \/ msgList' = msgList
    /\ results' = results
    /\ IF stopOnError
       THEN /\ pc' = "raised"
            /\ ret' = [error |-> "PUBLISH", queue |-> QueueName]
       ELSE /\ pc' = "next"
            /\ ret' = ret
    /\ UNCHANGED <<inputVars, workId, idx, taskId, nonce, workSet, queue, chanBuffer,
                   sends, pubFailed>>

\* submit.js 84-87: best-effort del of the descriptor (its error is swallowed),
\* push {taskId, source, error}, re-raise under stopOnError.
rollbackAfterPublishError ==
    /\ UNCHANGED <<notSubVars, limVars, pubLog, undrained>>
    /\ pc = "rollback"
    /\ calls' = calls \cup {<<"del", "msg", taskId>>}
    /\ \/ msgList' = [msgList EXCEPT ![taskId] = <<>>]
       \/ msgList' = msgList
    /\ results' = Append(results, [taskId |-> taskId, source |-> PlanSource(idx),
                                   error |-> "PUBLISH"])
    /\ IF stopOnError
       THEN /\ pc' = "raised"
            /\ ret' = [error |-> "PUBLISH", queue |-> QueueName]
       ELSE /\ pc' = "next"
            /\ ret' = ret
    /\ UNCHANGED <<inputVars, workId, idx, taskId, nonce, workSet, queue, chanBuffer,
                   sends, pubFailed>>

NextSubmit ==
    \/ createSingleCall
    \/ createBatchCall
    \/ checkQueueOrThrow
    \/ nextPlanItem
    \/ lPushDescriptor
    \/ publishBurstSend
    \/ publishBurstDrain
    \/ publishBurstChannelError
    \/ rollbackAfterPublishError

Spec == InitSubmit /\ [][NextSubmit]_vars

\* createBatch under ratePerSec, with the clock.
NextRate ==
    \/ createBatchCall
    \/ checkQueueOrThrow
    \/ nextPlanItem
    \/ lPushDescriptor
    \/ limiterWake
    \/ publishBurstSend
    \/ publishBurstDrain
    \/ publishBurstChannelError
    \/ rollbackAfterPublishError
    \/ tick

SpecRate == InitRate /\ [][NextRate]_vars

\* =========================================================== wait engine
\* The work the wait engine runs against: the state a createSingle or
\* createBatch call leaves behind when every publish succeeded.
PlanLenOf(m) == IF m = "single" THEN 1 ELSE MaxTasks

SubmittedResults(m, w) ==
    IF m = "single" THEN <<>>
    ELSE [i \in 1..MaxTasks |->
             [taskId |-> generateTaskId(w, i - 1), source |-> i, error |-> None]]

AfterSubmission(m, w) ==
    /\ mode = m
    /\ stopOnError = FALSE
    /\ planLen = PlanLenOf(m)
    /\ queueExists = TRUE
    /\ pc = "returned"
    /\ workId = w
    /\ idx = PlanLenOf(m)
    /\ taskId = generateTaskId(w, PlanLenOf(m) - 1)
    /\ results = SubmittedResults(m, w)
    /\ ret = IF m = "single" THEN [taskId |-> generateTaskId(w, 0)]
             ELSE [workId |-> w, tasks |-> SubmittedResults(m, w)]
    /\ nonce = PlanLenOf(m)
    /\ msgList = [t \in TaskIdSpace |->
                     IF t.work = w /\ t.n <= PlanLenOf(m)
                     THEN <<buildTaskMsgFromPlan(IF m = "single" THEN "single" ELSE t.n, t)>>
                     ELSE <<>>]
    /\ workSet = [x \in AllWorkIds |-> {}]
    /\ queue = [i \in 1..PlanLenOf(m) |-> generateTaskId(w, i - 1)]
    /\ chanBuffer = <<>>
    /\ calls = {<<"lPush", "msg", generateTaskId(w, i - 1)>> : i \in 1..PlanLenOf(m)}
    /\ sends = [i \in 1..PlanLenOf(m) |-> generateTaskId(w, i - 1)]
    /\ pubFailed = {}
    /\ ratePerSec = 0
    /\ InitLimiter
    /\ pubLog = [i \in 1..PlanLenOf(m) |-> [at |-> 0, window |-> 0]]
    /\ undrained = 0

InitWait ==
    /\ InitLib
    /\ now = 0
    /\ storeOk \in BOOLEAN
    /\ InitMany
    /\ InitWatch
    /\ clientWorkId = TaskClientWorkId("w1")
    /\ manifestWorkId \in WorkIds \cup {None}
    /\ \/ AfterSubmission("single", createSingleWorkId(manifestWorkId))
       \/ AfterSubmission("batch", createBatchWorkId(manifestWorkId))
    /\ InitWaitSide

\* Task ids the submission returned.
Submitted == {queue[i] : i \in 1..Len(queue)}

\* The completion set the client's connector polls (part_003 16:
\* "wf:" + workId + ":tasksPendingCompletionHandling", workId = client.workId).
completedNotificationQueueKey == clientWorkId

\* wait.js 18-23, part_003 122-129: the member of <taskId> parsed, or null.
peekExitCode(t) == IF exitCode[t] = None THEN NullCode ELSE ParseInt(exitCode[t])

\* wait.js 44-46: the tuple the resolver was called with, wrapped; `member` is
\* tuple[1] (None for null/undefined).
WrapTuple(member) == [state |-> "DONE",
                      code |-> IF member = None THEN NullCode ELSE ParseInt(member)]

\* part_003 122-129: what connector.peekExitCode can answer for task t: the
\* member read, or null when the store read raised (the error is caught there).
PeekReplies(t) == {peekExitCode(t)} \cup (IF storeOk THEN {} ELSE {NullCode})

\* part_003 70: the `while (this.running)` test that follows every `continue`
\* and every completed iteration; when it passes, the poll is issued.
NextIteration == IF running THEN "poll" ELSE "exited"

HasResolver(t) == t \in DOMAIN taskPromiseResolves

DeleteResolver(t) == [x \in (DOMAIN taskPromiseResolves) \ {t} |-> taskPromiseResolves[x]]

\* -------------------------------------------------------------- the worker
\* Worker contract, first write: the exit code into the <taskId> set, for a task
\* id taken from the queue.
workerWritesExitCode(t, c) ==
    /\ UNCHANGED firedAfterWrite
    /\ t \in Submitted
    /\ workerPc[t] = "queued"
    /\ exitCode' = [exitCode EXCEPT ![t] = c]
    /\ workerPc' = [workerPc EXCEPT ![t] = "wrote"]
    /\ UNCHANGED <<subVars, manyVars, watchVars, now, storeOk, libVars, completionSet, taskPromiseResolves, running, connectorRunning,
                   loopPc, loopTask, loopResult, loopResolve, wpc, wTask, wTimeout, wRes,
                   timer>>

\* Worker contract, second write: the task id into the completion set of the
\* task's work, wf:<WorkId>:tasksPendingCompletionHandling.
workerNotifiesCompletion(t) ==
    /\ UNCHANGED firedAfterWrite
    /\ workerPc[t] = "wrote"
    /\ completionSet' = [completionSet EXCEPT ![t.work] = @ \cup {t}]
    /\ workerPc' = [workerPc EXCEPT ![t] = "notified"]
    /\ UNCHANGED <<subVars, manyVars, watchVars, now, storeOk, libVars, exitCode, taskPromiseResolves, running, connectorRunning,
                   loopPc, loopTask, loopResult, loopResolve, wpc, wTask, wTimeout, wRes,
                   timer>>

\* ------------------------------------------------------- RedisConnector.run
\* part_003 68-84: the reply of sRandMember(completion set) and what follows up
\* to the next await: exit when stopped, sleep when the set is empty or the read
\* raised (the error is caught, taskId stays null), else ask for the task's
\* exit code.
runPoll ==
    /\ UNCHANGED firedAfterWrite
    /\ loopPc = "poll"
    /\ \/ /\ completionSet[completedNotificationQueueKey] = {} \/ ~storeOk
          /\ loopPc' = IF running THEN "sleep" ELSE "exited"
          /\ loopTask' = NoTask
       \/ \E t \in completionSet[completedNotificationQueueKey] :
             /\ loopPc' = IF running THEN "read" ELSE "exited"
             /\ loopTask' = t
    /\ UNCHANGED <<subVars, manyVars, watchVars, now, storeOk, libVars, exitCode, completionSet, workerPc, taskPromiseResolves, running,
                   connectorRunning, loopResult, loopResolve, wpc, wTask, wTimeout, wRes,
                   timer>>

\* part_003 81-83: the sleep of checkInterval ms ends; the loop goes round.
runWake ==
    /\ UNCHANGED firedAfterWrite
    /\ loopPc = "sleep"
    /\ loopPc' = NextIteration
    /\ UNCHANGED <<subVars, manyVars, watchVars, now, storeOk, libVars, exitCode, completionSet, workerPc, taskPromiseResolves, running,
                   connectorRunning, loopTask, loopResult, loopResolve, wpc, wTask, wTimeout,
                   wRes, timer>>

\* part_003 88-110: the reply of sRandMember(taskId); the resolver lookup; with
\* a resolver, it is taken out of the table before the sRem is awaited.  When
\* the read raised, the error is caught and the loop goes round (part_003 92-95).
runReadResult ==
    /\ UNCHANGED firedAfterWrite
    /\ loopPc = "read"
    /\ \/ /\ loopResult' = exitCode[loopTask]
          /\ IF HasResolver(loopTask)
             THEN /\ loopResolve' = <<taskPromiseResolves[loopTask]>>
                  /\ taskPromiseResolves' = DeleteResolver(loopTask)
                  /\ loopPc' = "remPresent"
             ELSE /\ loopPc' = "remAbsent"
                  /\ UNCHANGED <<loopResolve, taskPromiseResolves>>
       \/ /\ ~storeOk
          /\ loopPc' = NextIteration
          /\ UNCHANGED <<loopResult, loopResolve, taskPromiseResolves>>
    /\ UNCHANGED <<subVars, manyVars, watchVars, now, storeOk, libVars, exitCode, completionSet, workerPc, running, connectorRunning,
                   loopTask, wpc, wTask, wTimeout, wRes, timer>>

\* part_003 97-101: no resolver: sRem of the task id, next iteration.  The await
\* is not inside a try: when the sRem raises, run() rejects and the loop is gone
\* (index.js 57 started it with `void`, nothing restarts it).
runRemAbsent ==
    /\ UNCHANGED firedAfterWrite
    /\ loopPc = "remAbsent"
    /\ \/ /\ completionSet' = [completionSet EXCEPT ![completedNotificationQueueKey] = @ \ {loopTask}]
          /\ loopPc' = NextIteration
       \/ /\ ~storeOk
          /\ completionSet' = completionSet
          /\ loopPc' = "crashed"
    /\ UNCHANGED <<subVars, manyVars, watchVars, now, storeOk, libVars, exitCode, workerPc, taskPromiseResolves, running, connectorRunning,
                   loopTask, loopResult, loopResolve, wpc, wTask, wTimeout, wRes, timer>>

\* part_003 106-114 with wait.js 43-51: sRem of the task id, then
\* promiseResolve(taskResult): the promise p of the call that installed the
\* resolver settles; the call returns it unless its race was already lost to
\* the timer.  An error of the sRem is caught and logged (part_003 106-110).
runRemPresent ==
    /\ UNCHANGED firedAfterWrite
    /\ loopPc = "remPresent"
    /\ \/ completionSet' = [completionSet EXCEPT ![completedNotificationQueueKey] = @ \ {loopTask}]
       \/ ~storeOk /\ completionSet' = completionSet
    /\ LET w == loopResolve[1] IN
         IF wpc[w] \in {"waiting", "racing"}
         THEN /\ wRes' = [wRes EXCEPT ![w] = WrapTuple(loopResult)]
              /\ wpc' = [wpc EXCEPT ![w] = "returned"]
         ELSE UNCHANGED <<wRes, wpc>>
    /\ loopResolve' = <<>>
    /\ loopPc' = NextIteration
    /\ UNCHANGED <<subVars, manyVars, watchVars, now, storeOk, libVars, exitCode, workerPc, taskPromiseResolves, running, connectorRunning,
                   loopTask, loopResult, wTask, wTimeout, timer>>

\* part_003 145-153: stop(): the flag is cleared and the sleep's timer is
\* cancelled; the promise of a sleep in progress then never settles, the loop
\* stays suspended in it.
stop ==
    /\ UNCHANGED firedAfterWrite
    /\ running
    /\ running' = FALSE
    /\ loopPc' = IF loopPc = "sleep" THEN "stalled" ELSE loopPc
    /\ UNCHANGED <<subVars, manyVars, watchVars, now, storeOk, libVars, exitCode, completionSet,
                   workerPc, taskPromiseResolves, connectorRunning, loopTask, loopResult,
                   loopResolve, wpc, wTask, wTimeout, wRes, timer>>

\* ------------------------------------------------------------- waitForTask
\* wait.js 29-32: waitForTask(client, t, {timeoutSec}) up to `await client.ready()`
\* and the request of the fast peek.
waitForTaskCall(w, t, to) ==
    /\ UNCHANGED firedAfterWrite
    /\ wpc[w] = "idle"
    /\ wpc' = [wpc EXCEPT ![w] = "peek"]
    /\ wTask' = [wTask EXCEPT ![w] = t]
    /\ wTimeout' = [wTimeout EXCEPT ![w] = to]
    /\ UNCHANGED <<subVars, manyVars, watchVars, now, storeOk, libVars, exitCode, completionSet, workerPc, taskPromiseResolves, running,
                   connectorRunning, loopPc, loopTask, loopResult, loopResolve, wRes, timer>>

\* wait.js 35-64 with index.js 55-60 and part_003 33-45: the reply of the fast
\* peek and what follows without suspension: DONE on a finite code; else the
\* connector is started if it was not, and connector.waitForTask either installs
\* the resolver or, one being installed already, returns undefined, which the
\* .then wraps into DONE with a null code.  With a timeout the timer is armed
\* before the race.
waitForTaskPeek(w) ==
    /\ UNCHANGED firedAfterWrite
    /\ wpc[w] = "peek"
    /\ \E fast \in PeekReplies(wTask[w]) :
       LET t == wTask[w]
       IN IF fast # NullCode
          THEN /\ wRes' = [wRes EXCEPT ![w] = [state |-> "DONE", code |-> fast]]
               /\ wpc' = [wpc EXCEPT ![w] = "returned"]
               /\ UNCHANGED <<taskPromiseResolves, running, connectorRunning, loopPc, timer>>
          ELSE /\ connectorRunning' = TRUE
               /\ running' = IF connectorRunning THEN running ELSE TRUE
               /\ loopPc' = IF connectorRunning THEN loopPc ELSE "poll"
               /\ timer' = [timer EXCEPT ![w] = IF wTimeout[w] THEN "armed" ELSE @]
               /\ IF HasResolver(t)
                  THEN /\ taskPromiseResolves' = taskPromiseResolves
                       /\ wRes' = [wRes EXCEPT ![w] = WrapTuple(None)]
                       /\ wpc' = [wpc EXCEPT ![w] = "returned"]
                  ELSE /\ taskPromiseResolves' = (t :> w) @@ taskPromiseResolves
                       /\ wRes' = wRes
                       /\ wpc' = [wpc EXCEPT ![w] = IF wTimeout[w] THEN "racing" ELSE "waiting"]
    /\ UNCHANGED <<subVars, manyVars, watchVars, now, storeOk, libVars, exitCode, completionSet, workerPc, loopTask, loopResult,
                   loopResolve, wTask, wTimeout>>

\* wait.js 55-66 with part_003 134-140: the timer fires: cancelWait(taskId)
\* deletes whatever resolver the table holds for the task id; the race, if still
\* open, ends with TIMEOUT and the last-chance peek is requested.
timeoutFires(w) ==
    /\ timer[w] = "armed"
    /\ timer' = [timer EXCEPT ![w] = "fired"]
    /\ firedAfterWrite' = [firedAfterWrite EXCEPT ![w] = exitCode[wTask[w]] # None]
    /\ taskPromiseResolves' = DeleteResolver(wTask[w])
    /\ wpc' = [wpc EXCEPT ![w] = IF @ = "racing" THEN "latepeek" ELSE @]
    /\ UNCHANGED <<subVars, manyVars, watchVars, now, storeOk, libVars, exitCode, completionSet, workerPc, running, connectorRunning,
                   loopPc, loopTask, loopResult, loopResolve, wTask, wTimeout, wRes>>

\* wait.js 64-71: the reply of the last-chance peek: DONE on a finite code, else
\* the TIMEOUT result.
waitForTaskLatePeek(w) ==
    /\ UNCHANGED firedAfterWrite
    /\ wpc[w] = "latepeek"
    /\ \E late \in PeekReplies(wTask[w]) :
         wRes' = [wRes EXCEPT ![w] = IF late # NullCode
                                      THEN [state |-> "DONE", code |-> late]
                                      ELSE [state |-> "TIMEOUT", code |-> NullCode]]
    /\ wpc' = [wpc EXCEPT ![w] = "returned"]
    /\ UNCHANGED <<subVars, manyVars, watchVars, now, storeOk, libVars, exitCode, completionSet, workerPc, taskPromiseResolves, running,
                   connectorRunning, loopPc, loopTask, loopResult, loopResolve, wTask,
                   wTimeout, timer>>

NextWait ==
    \/ \E t \in TaskIdSpace, c \in CodeStrs : workerWritesExitCode(t, c)
    \/ \E t \in TaskIdSpace : workerNotifiesCompletion(t)
    \/ runPoll
    \/ runWake
    \/ runReadResult
    \/ runRemAbsent
    \/ runRemPresent
    \/ stop
    \/ \E w \in Waiters, t \in Submitted, to \in BOOLEAN : waitForTaskCall(w, t, to)
    \/ \E w \in Waiters : waitForTaskPeek(w)
    \/ \E w \in Waiters : timeoutFires(w)
    \/ \E w \in Waiters : waitForTaskLatePeek(w)

SpecWait == InitWait /\ [][NextWait]_vars

\* One waitForTask call without timeout, the worker and the connector loop, run
\* fairly: every store reply arrives, every sleep ends, the worker goes on.
NextLive ==
    \/ \E t \in TaskIdSpace, c \in CodeStrs : workerWritesExitCode(t, c)
    \/ \E t \in TaskIdSpace : workerNotifiesCompletion(t)
    \/ runPoll
    \/ runWake
    \/ runReadResult
    \/ runRemAbsent
    \/ runRemPresent
    \/ \E t \in Submitted : waitForTaskCall(1, t, FALSE)
    \/ waitForTaskPeek(1)

FairLive ==
    /\ WF_vars(\E t \in TaskIdSpace, c \in CodeStrs : workerWritesExitCode(t, c))
    /\ WF_vars(\E t \in TaskIdSpace : workerNotifiesCompletion(t))
    /\ WF_vars(runPoll)
    /\ WF_vars(runWake)
    /\ WF_vars(runReadResult)
    /\ WF_vars(runRemAbsent)
    /\ WF_vars(runRemPresent)
    /\ WF_vars(waitForTaskPeek(1))

InitLive == InitWait /\ storeOk

SpecLive == InitLive /\ [][NextLive]_vars /\ FairLive

\* ============================================================ waitForMany
\* The ids of S in the order of the caller's array (the order of minting).
IdSeq(S) ==
    CHOOSE f \in [1..Cardinality(S) -> S] :
        \A i, j \in 1..Cardinality(S) : i < j => f[i].n < f[j].n

\* wait.js 91-100: the entries the pipelined fast peek moves to done: the ids of
\* S whose <taskId> member parses to a finite code, in order.
PeekedDone(S) ==
    LET fin == {t \in S : peekExitCode(t) # NullCode}
        f == IdSeq(fin)
    IN [i \in 1..Cardinality(fin) |-> [taskId |-> f[i], code |-> peekExitCode(f[i])]]

\* Task ids of the entries of a done / results list.
DoneIds(d) == {d[i].taskId : i \in 1..Len(d)}

\* The per-id waitForTask call of task t (wait.js 123): call number t.n.
CallOf(t) == t.n

\* Calls a caller other than waitForMany / watchWork issues: those that are not
\* the per-id call of a submitted task.
OtherCalls == Waiters \ {CallOf(t) : t \in Submitted}

\* The first resolve of the promise wins (wait.js 111-144).
ManyResolve(r) == IF manyRet.state = "NONE" THEN r ELSE manyRet

\* wait.js 77-89: waitForMany(client, ids, {failFast, timeoutSec}) up to the await
\* of the pipelined fast peek; with no id there is nothing to peek and DONE is
\* returned.
waitForManyCall(ids, ff, to) ==
    /\ manyPc = "idle"
    /\ manyIds' = ids
    /\ failFast' = ff
    /\ manyTimeout' = to
    /\ pending' = ids
    /\ IF ids = {}
       THEN /\ manyPc' = "returned"
            /\ manyRet' = [state |-> "DONE", done |-> <<>>, pending |-> {}]
       ELSE /\ manyPc' = "peek"
            /\ manyRet' = manyRet
    /\ UNCHANGED <<subVars, waitVars, watchVars, now, storeOk, libVars, done, manyTimer>>

\* Variant of waitForManyPeek that pushes the peeked entries to done and forgets
\* pending.delete(id).
waitForManyPeekKeepsPending ==
    /\ manyPc = "peek"
    /\ \/ /\ ~storeOk
          /\ manyPc' = "raised"
          /\ manyRet' = [state |-> "ERROR", done |-> <<>>, pending |-> {}]
          /\ UNCHANGED <<done, pending, manyTimer, wpc, wTask, wTimeout, connectorRunning,
                         running, loopPc>>
       \/ LET d == PeekedDone(pending)
              rest == pending
          IN /\ done' = d
             /\ pending' = rest
             /\ manyPc' = "waiting"
             /\ manyRet' = manyRet
             /\ manyTimer' = IF manyTimeout THEN "armed" ELSE "off"
             /\ connectorRunning' = TRUE
             /\ running' = IF connectorRunning THEN running ELSE TRUE
             /\ loopPc' = IF connectorRunning THEN loopPc ELSE "poll"
             /\ wpc' = [w \in Waiters |->
                           IF \E t \in rest : CallOf(t) = w THEN "peek" ELSE wpc[w]]
             /\ wTask' = [w \in Waiters |->
                           IF \E t \in rest : CallOf(t) = w
                           THEN CHOOSE t \in rest : CallOf(t) = w ELSE wTask[w]]
             /\ wTimeout' = [w \in Waiters |->
                           IF \E t \in rest : CallOf(t) = w THEN FALSE ELSE wTimeout[w]]
    /\ UNCHANGED <<subVars, watchVars, now, storeOk, libVars, manyIds, failFast, manyTimeout,
                   exitCode, completionSet, workerPc, taskPromiseResolves, loopTask,
                   loopResult, loopResolve, wRes, timer, firedAfterWrite>>

\* wait.js 86-124: the reply of multi.exec() and what follows without
\* suspension.  A store error rejects the call.  Ids with a finite code move
\* from pending to done; with none pending DONE is returned; else the connector
\* is started if it was not, the overall timer is armed under timeoutSec, and
\* waitForTask(client, id) is called for every pending id (each runs up to its
\* own fast peek).
waitForManyPeek ==
    /\ manyPc = "peek"
    /\ \/ /\ ~storeOk
          /\ manyPc' = "raised"
          /\ manyRet' = [state |-> "ERROR", done |-> <<>>, pending |-> {}]
          /\ UNCHANGED <<done, pending, manyTimer, wpc, wTask, wTimeout, connectorRunning,
                         running, loopPc>>
       \/ LET d == PeekedDone(pending)
              rest == pending \ {d[i].taskId : i \in 1..Len(d)}
          IN /\ done' = d
             /\ pending' = rest
             /\ IF rest = {}
                THEN /\ manyPc' = "returned"
                     /\ manyRet' = [state |-> "DONE", done |-> d, pending |-> {}]
                     /\ UNCHANGED <<manyTimer, wpc, wTask, wTimeout, connectorRunning,
                                    running, loopPc>>
                ELSE /\ manyPc' = "waiting"
                     /\ manyRet' = manyRet
                     /\ manyTimer' = IF manyTimeout THEN "armed" ELSE "off"
                     /\ connectorRunning' = TRUE
                     /\ running' = IF connectorRunning THEN running ELSE TRUE
                     /\ loopPc' = IF connectorRunning THEN loopPc ELSE "poll"
                     /\ wpc' = [w \in Waiters |->
                                   IF \E t \in rest : CallOf(t) = w THEN "peek" ELSE wpc[w]]
                     /\ wTask' = [w \in Waiters |->
                                   IF \E t \in rest : CallOf(t) = w
                                   THEN CHOOSE t \in rest : CallOf(t) = w ELSE wTask[w]]
                     /\ wTimeout' = [w \in Waiters |->
                                   IF \E t \in rest : CallOf(t) = w THEN FALSE ELSE wTimeout[w]]
    /\ UNCHANGED <<subVars, watchVars, now, storeOk, libVars, manyIds, failFast, manyTimeout,
                   exitCode, completionSet, workerPc, taskPromiseResolves, loopTask,
                   loopResult, loopResolve, wRes, timer, firedAfterWrite>>

\* wait.js 123-144: the .then callback of the per-id call of task wTask[w], run
\* once that call has returned: the id moves from pending to done; under
\* failFast a non-zero numeric code cancels the resolvers of the ids still
\* pending, clears the timer and resolves FAILED; with nothing pending the
\* timer is cleared and DONE resolved.
waitForManyThen(w) ==
    /\ manyPc \in {"waiting", "returned"}
    /\ wpc[w] = "returned"
    /\ wTask[w] \in pending /\ CallOf(wTask[w]) = w
    /\ LET id == wTask[w]
           code == wRes[w].code
           rest == pending \ {id}
           d == Append(done, [taskId |-> id, code |-> code])
       IN /\ pending' = rest
          /\ done' = d
          /\ IF failFast /\ code # NullCode /\ code # 0
             THEN /\ taskPromiseResolves' =
                        [x \in (DOMAIN taskPromiseResolves) \ rest |-> taskPromiseResolves[x]]
                  /\ manyTimer' = IF manyTimer = "armed" THEN "off" ELSE manyTimer
                  /\ manyRet' = ManyResolve([state |-> "FAILED", done |-> d, pending |-> rest])
                  /\ manyPc' = "returned"
             ELSE IF rest = {}
             THEN /\ taskPromiseResolves' = taskPromiseResolves
                  /\ manyTimer' = IF manyTimer = "armed" THEN "off" ELSE manyTimer
                  /\ manyRet' = ManyResolve([state |-> "DONE", done |-> d, pending |-> {}])
                  /\ manyPc' = "returned"
             ELSE UNCHANGED <<taskPromiseResolves, manyTimer, manyRet, manyPc>>
    /\ UNCHANGED <<subVars, watchVars, now, storeOk, libVars, manyIds, failFast, manyTimeout,
                   exitCode, completionSet, workerPc, running, connectorRunning, loopPc,
                   loopTask, loopResult, loopResolve, wpc, wTask, wTimeout, wRes, timer,
                   firedAfterWrite>>

\* wait.js 113-115: the overall timer fires: TIMEOUT is resolved with done and
\* a copy of pending.
waitForManyTimeout ==
    /\ manyTimer = "armed"
    /\ manyTimer' = "fired"
    /\ manyRet' = ManyResolve([state |-> "TIMEOUT", done |-> done, pending |-> pending])
    /\ manyPc' = "returned"
    /\ UNCHANGED <<subVars, waitVars, watchVars, now, storeOk, libVars, manyIds, failFast,
                   manyTimeout, done, pending>>

\* waitForMany over the submitted tasks, with the worker, the connector loop
\* and the calls of other callers.
NextMany ==
    \/ \E t \in TaskIdSpace, c \in CodeStrs : workerWritesExitCode(t, c)
    \/ \E t \in TaskIdSpace : workerNotifiesCompletion(t)
    \/ runPoll
    \/ runWake
    \/ runReadResult
    \/ runRemAbsent
    \/ runRemPresent
    \/ \E ids \in SUBSET Submitted, ff \in BOOLEAN, to \in BOOLEAN : waitForManyCall(ids, ff, to)
    \/ waitForManyPeek
    \/ \E w \in Waiters : waitForManyThen(w)
    \/ waitForManyTimeout
    \/ \E w \in OtherCalls, t \in Submitted : waitForTaskCall(w, t, FALSE)
    \/ \E w \in Waiters : waitForTaskPeek(w)

SpecMany == InitWait /\ [][NextMany]_vars

\* ============================================================== watchWork
\* opts.pollMs of the watchWork calls: one step of the clock.
PollMs == TickMs

\* Values of opts.timeoutSec * 1000 and opts.idleSec * 1000 (0: disabled).
TimeoutChoices == {0, 2 * TickMs}
IdleChoices == {0, TickMs}

\* A producer outside this library adds a submitted task id to the work-set
\* work:<workId>:tasks (README.md 16; the submission engine itself never does).
workSetGrows(t) ==
    /\ t \in Submitted
    /\ t \notin workSet[t.work]
    /\ workSet' = [workSet EXCEPT ![t.work] = @ \cup {t}]
    /\ UNCHANGED <<waitVars, manyVars, watchVars, now, storeOk, libVars, inputVars, pc, workId,
                   idx, taskId, results, ret, nonce, msgList, queue, chanBuffer, calls,
                   sends, pubFailed, limVars, pubLog, undrained>>

\* Orders in which sMembers can list the set S.
Listings(S) == {f \in [1..Cardinality(S) -> S] : \A i, j \in 1..Cardinality(S) : i # j => f[i] # f[j]}

\* wait.js 177-190: the split of the snapshot ids by the pipelined fast peek.
PeekedResults(ids) ==
    LET RECURSIVE go(_)
        go(i) == IF i > Len(ids) THEN <<>>
                 ELSE IF peekExitCode(ids[i]) # NullCode
                      THEN <<[taskId |-> ids[i], code |-> peekExitCode(ids[i])]>> \o go(i + 1)
                      ELSE go(i + 1)
    IN go(1)

\* wait.js 209-210: the next entry of perTask after position c that still holds
\* a promise (0: none).
NextEntry(c, pt) ==
    IF \E i \in (c + 1)..Len(taskIds) : taskIds[i] \in pt
    THEN CHOOSE i \in (c + 1)..Len(taskIds) :
             /\ taskIds[i] \in pt
             /\ \A j \in (c + 1)..(i - 1) : taskIds[j] \notin pt
    ELSE 0

WatchReturn(st, res) ==
    /\ watchPc' = "returned"
    /\ watchRet' = [state |-> st, total |-> expected', results |-> res]
    /\ cursor' = 0
    /\ wakeAt' = wakeAt

\* wait.js 220-230: after the for loop: DONE with enough results, IDLE when
\* idleMs has passed since lastNew, else the sleep of pollMs.
EndOfPass(res, ln) ==
    IF Len(res) >= expected' THEN WatchReturn("DONE", res)
    ELSE IF idleMs > 0 /\ now - ln >= idleMs THEN WatchReturn("IDLE", res)
    ELSE /\ watchPc' = "sleep"
         /\ wakeAt' = now + PollMs
         /\ cursor' = 0
         /\ watchRet' = watchRet

\* wait.js 204-211: the while test, the timeout test, and the for loop up to
\* its first await.
BeginPass(res, ln, pt, st) ==
    IF Len(res) >= expected' THEN WatchReturn("DONE", res)
    ELSE IF timeoutMs > 0 /\ now - st >= timeoutMs THEN WatchReturn("TIMEOUT", res)
    ELSE IF NextEntry(0, pt) # 0
    THEN /\ watchPc' = "race"
         /\ cursor' = NextEntry(0, pt)
         /\ wakeAt' = wakeAt
         /\ watchRet' = watchRet
    ELSE EndOfPass(res, ln)

\* wait.js 152-166: watchWork(client, workId, opts) up to the first store
\* request: sCard without a positive opts.expected, else sMembers.
watchWorkCall(wid, ex, to, idle) ==
    /\ watchPc = "idle"
    /\ watchWorkId' = wid
    /\ optExpected' = ex
    /\ timeoutMs' = to
    /\ idleMs' = idle
    /\ expected' = ex
    /\ watchPc' = IF ex > 0 THEN "members" ELSE "card"
    /\ UNCHANGED <<subVars, waitVars, manyVars, now, storeOk, libVars, taskIds, watchResults,
                   perTask, cursor, start, lastNew, wakeAt, recordedAt, watchRet>>

\* wait.js 164-166: the reply of sCard(keySet); sMembers is requested.  A store
\* error fails the call.
watchWorkCard ==
    /\ watchPc = "card"
    /\ \/ /\ expected' = Cardinality(workSet[watchWorkId])
          /\ watchPc' = "members"
          /\ watchRet' = watchRet
       \/ /\ ~storeOk
          /\ expected' = expected
          /\ watchPc' = "raised"
          /\ watchRet' = [state |-> "ERROR", total |-> 0, results |-> <<>>]
    /\ UNCHANGED <<subVars, waitVars, manyVars, now, storeOk, libVars, watchWorkId, optExpected,
                   timeoutMs, idleMs, taskIds, watchResults, perTask, cursor, start,
                   lastNew, wakeAt, recordedAt>>

\* wait.js 168-176: the reply of sMembers(keySet), in any order; the snapshot is
\* cut to expected when expected is non-zero and smaller; the pipelined fast
\* peek is requested.
watchWorkMembers ==
    /\ watchPc = "members"
    /\ \/ /\ \E f \in Listings(workSet[watchWorkId]) :
                taskIds' = IF expected # 0 /\ Len(f) > expected
                           THEN SubSeq(f, 1, expected) ELSE f
          /\ watchPc' = "peek"
          /\ watchRet' = watchRet
       \/ /\ ~storeOk
          /\ taskIds' = taskIds
          /\ watchPc' = "raised"
          /\ watchRet' = [state |-> "ERROR", total |-> 0, results |-> <<>>]
    /\ UNCHANGED <<subVars, waitVars, manyVars, now, storeOk, libVars, watchWorkId, optExpected,
                   timeoutMs, idleMs, expected, watchResults, perTask, cursor, start,
                   lastNew, wakeAt, recordedAt>>

\* wait.js 174-211: the reply of multi.exec() and what follows without
\* suspension: results and waiting are filled; DONE when results reach
\* expected; else the connector is started if it was not, start and lastNew
\* are read off the clock, waitForTask(client, id) is called for every waiting
\* id, and the first pass of the loop begins.
watchWorkPeek ==
    /\ watchPc = "peek"
    /\ expected' = expected
    /\ \/ /\ ~storeOk
          /\ watchPc' = "raised"
          /\ watchRet' = [state |-> "ERROR", total |-> 0, results |-> <<>>]
          /\ UNCHANGED <<watchResults, perTask, cursor, start, lastNew, wakeAt, recordedAt,
                         wpc, wTask, wTimeout, connectorRunning, running, loopPc>>
       \/ LET res == PeekedResults(taskIds)
              waiting == {taskIds[i] : i \in 1..Len(taskIds)} \ DoneIds(res)
          IN /\ watchResults' = res
             /\ recordedAt' = now
             /\ IF Len(res) >= expected
                THEN /\ WatchReturn("DONE", res)
                     /\ UNCHANGED <<perTask, start, lastNew, wpc, wTask, wTimeout,
                                    connectorRunning, running, loopPc>>
                ELSE /\ connectorRunning' = TRUE
                     /\ running' = IF connectorRunning THEN running ELSE TRUE
                     /\ loopPc' = IF connectorRunning THEN loopPc ELSE "poll"
                     /\ start' = now
                     /\ lastNew' = now
                     /\ perTask' = waiting
                     /\ wpc' = [w \in Waiters |->
                                   IF \E t \in waiting : CallOf(t) = w THEN "peek" ELSE wpc[w]]
                     /\ wTask' = [w \in Waiters |->
                                   IF \E t \in waiting : CallOf(t) = w
                                   THEN CHOOSE t \in waiting : CallOf(t) = w ELSE wTask[w]]
                     /\ wTimeout' = [w \in Waiters |->
                                   IF \E t \in waiting : CallOf(t) = w THEN FALSE ELSE wTimeout[w]]
                     /\ BeginPass(res, now, waiting, now)
    /\ UNCHANGED <<subVars, manyVars, now, storeOk, libVars, watchWorkId, optExpected, timeoutMs,
                   idleMs, taskIds, exitCode, completionSet, workerPc, taskPromiseResolves,
                   loopTask, loopResult, loopResolve, wRes, timer, firedAfterWrite>>

\* Variant of watchWorkRace that records a completion without resetting
\* lastNew.
watchWorkRaceKeepsLastNew ==
    /\ watchPc = "race"
    /\ expected' = expected
    /\ LET id == taskIds[cursor]
           w == CallOf(id)
           won == wpc[w] = "returned"
           res == IF won THEN Append(watchResults, [taskId |-> id, code |-> wRes[w].code])
                  ELSE watchResults
           pt == IF won THEN perTask \ {id} ELSE perTask
           ln == lastNew
       IN /\ watchResults' = res
          /\ perTask' = pt
          /\ lastNew' = ln
          /\ recordedAt' = IF won THEN now ELSE recordedAt
          /\ IF NextEntry(cursor, pt) # 0
             THEN /\ cursor' = NextEntry(cursor, pt)
                  /\ UNCHANGED <<watchPc, wakeAt, watchRet>>
             ELSE EndOfPass(res, ln)
    /\ UNCHANGED <<subVars, waitVars, manyVars, now, storeOk, libVars, watchWorkId, optExpected,
                   timeoutMs, idleMs, taskIds, start>>

\* wait.js 209-230: `await Promise.race([p, sleepUnref(0)])` for the entry at
\* the cursor settles: with p (the per-id call returned) the result is pushed,
\* the entry cleared and lastNew read off the clock; the for loop moves to the
\* next entry that holds a promise, or ends.
watchWorkRace ==
    /\ watchPc = "race"
    /\ expected' = expected
    /\ LET id == taskIds[cursor]
           w == CallOf(id)
           won == wpc[w] = "returned"
           res == IF won THEN Append(watchResults, [taskId |-> id, code |-> wRes[w].code])
                  ELSE watchResults
           pt == IF won THEN perTask \ {id} ELSE perTask
           ln == IF won THEN now ELSE lastNew
       IN /\ watchResults' = res
          /\ perTask' = pt
          /\ lastNew' = ln
          /\ recordedAt' = IF won THEN now ELSE recordedAt
          /\ IF NextEntry(cursor, pt) # 0
             THEN /\ cursor' = NextEntry(cursor, pt)
                  /\ UNCHANGED <<watchPc, wakeAt, watchRet>>
             ELSE EndOfPass(res, ln)
    /\ UNCHANGED <<subVars, waitVars, manyVars, now, storeOk, libVars, watchWorkId, optExpected,
                   timeoutMs, idleMs, taskIds, start>>

\* wait.js 230 and 204-211: the sleep of pollMs ends (a timer never fires
\* early); the next pass begins.
watchWorkWake ==
    /\ watchPc = "sleep"
    /\ now >= wakeAt
    /\ expected' = expected
    /\ BeginPass(watchResults, lastNew, perTask, start)
    /\ UNCHANGED <<subVars, waitVars, manyVars, now, storeOk, libVars, watchWorkId, optExpected,
                   timeoutMs, idleMs, taskIds, watchResults, perTask, start, lastNew,
                   recordedAt>>

\* watchWork over the work of the submission, with the worker, the connector
\* loop, the clock and a producer of the work-set.  watchWork does not branch
\* on the value of an exit code: the workers write "0".  It reads the work-set
\* for the last time with sMembers and the clock only as differences from
\* `start`: the set grows until the snapshot is taken, the clock runs while
\* the loop does.
NextWatch ==
    \/ \E t \in TaskIdSpace : workerWritesExitCode(t, "0")
    \/ \E t \in TaskIdSpace : workerNotifiesCompletion(t)
    \/ \E t \in TaskIdSpace : watchPc \in {"idle", "card", "members"} /\ workSetGrows(t)
    \/ runPoll
    \/ runWake
    \/ runReadResult
    \/ runRemAbsent
    \/ runRemPresent
    \/ \E ex \in 0..MaxTasks, to \in TimeoutChoices, idle \in IdleChoices :
           watchWorkCall(workId, ex, to, idle)
    \/ watchWorkCard
    \/ watchWorkMembers
    \/ watchWorkPeek
    \/ watchWorkRace
    \/ watchWorkWake
    \/ \E w \in Waiters : waitForTaskPeek(w)
    \/ watchPc \in {"race", "sleep"} /\ tick

\* The work watched is a batch whose tasks carry the client's work id, so that
\* the connector polls the completion set the workers write to.
InitWatchRun ==
    /\ InitWait
    /\ mode = "batch"
    /\ manifestWorkId = clientWorkId

SpecWatch == InitWatchRun /\ [][NextWatch]_vars

\* ------------------------------------------------- submission: the claims
\* Task ids minted so far by the call.
Minted == {generateTaskId(workId, k) : k \in 0..(nonce - 1)}

ErrorEntries == {i \in 1..Len(results) : results[i].error # None}
PlainEntries == {i \in 1..Len(results) : results[i].error = None}

\* C1: every task id that is on the queue has its descriptor <taskId>_msg in the
\* store, in every execution, also after a publish reported failure and the
\* rollback ran.
C1_QueuedTaskHasDescriptor ==
    \A i \in 1..Len(queue) : HasDescriptor(queue[i])

\* C2: after every completed submission step a minted task id is a member of
\* work:<workId>:tasks exactly when its descriptor is persisted (and not rolled
\* back).
C2_MembershipIffDescriptor ==
    pc \in {"next", "returned"} =>
        \A t \in Minted : (t \in workSet[workId]) <=> HasDescriptor(t)

\* C3: the task id createSingle returned, and every entry without error in
\* createBatch's results, was handed to the channel exactly once and the queue
\* received exactly one message carrying it.
C3_ExactlyOnePublish ==
    /\ (mode = "single" /\ pc = "returned") =>
           /\ Count(sends, ret.taskId) = 1
           /\ Count(queue, ret.taskId) = 1
    /\ \A i \in PlainEntries :
           /\ Count(sends, results[i].taskId) = 1
           /\ Count(queue, results[i].taskId) = 1

\* C3 witness: a returned batch holding a plain entry next to an error entry.
C3_Witness ==
    /\ mode = "batch" /\ pc = "returned"
    /\ PlainEntries # {} /\ ErrorEntries # {}
    /\ \E i \in PlainEntries : Count(queue, results[i].taskId) = 1

\* C4: for every result entry carrying an error, both del(<taskId>_msg) and
\* sRem(work:<workId>:tasks, taskId) were attempted.
C4_RollbackAttemptsDelAndSRem ==
    \A i \in ErrorEntries :
        /\ <<"del", "msg", results[i].taskId>> \in calls
        /\ <<"sRem", "workSet", results[i].taskId>> \in calls

C6_StopOnErrorStopsAtFirstFailure ==
    (mode = "batch" /\ stopOnError /\ pubFailed # {}) =>
        /\ pubFailed = {idx}
        /\ nonce = idx
        /\ Len(sends) <= idx
        /\ \A t \in TaskIdSpace : t.n > idx => ~HasDescriptor(t)
        /\ pc \in {"rollback", "raised"}
        /\ pc = "raised" =>
              /\ ret.error = "PUBLISH"
              /\ <<"del", "msg", taskId>> \in calls
              /\ Len(results) = idx
              /\ results[idx].taskId = taskId
              /\ results[idx].error # None

\* C6 witness: a three-item batch under stopOnError raised on its second item.
C6_Witness ==
    /\ mode = "batch" /\ stopOnError /\ pc = "raised"
    /\ planLen = 3 /\ pubFailed = {2} /\ idx = 2

\* C7: when the queue is missing the call never gets past the queue check: it
\* issues no store operation and no publish, the store and the queue stay as
\* they were, and ENOQUEUE is raised only for a missing queue.
C7_MissingQueueStopsBeforeWrites ==
    /\ ~queueExists =>
          /\ pc \in {"call", "check", "raised"}
          /\ calls = {} /\ sends = <<>> /\ queue = <<>> /\ chanBuffer = <<>>
          /\ msgList = [t \in TaskIdSpace |-> <<>>]
          /\ workSet = [w \in AllWorkIds |-> {}]
          /\ pc = "raised" => ret.error \in {"ENOQUEUE", "AMQP"}
    /\ (pc = "raised" /\ ret.error = "ENOQUEUE") => ~queueExists

\* C7 witness: a call that raised ENOQUEUE.
C7_Witness ==
    pc = "raised" /\ ret.error = "ENOQUEUE" /\ ret.queue = QueueName

\* C8: the work id of a submitted task is manifest.metadata.workId when present
\* and the client's default work id (client.workId) otherwise.
C8_WorkIdIsManifestOrClientDefault ==
    pc # "call" =>
        /\ workId = (IF manifestWorkId # None THEN manifestWorkId ELSE clientWorkId)
        /\ \A t \in Minted : t.work = workId

\* ------------------------------------------------- wait engine: the claims
\* C9: a submitted task whose worker wrote the exit code and then added the task
\* id to the completion set of its work is eventually reported DONE by a
\* waitForTask call without timeout.
C9_CompletionEventuallyReported ==
    \A t \in TaskIdSpace :
        (wpc[1] # "idle" /\ wTask[1] = t /\ workerPc[t] = "notified")
            ~> (wpc[1] = "returned" /\ wRes[1].state = "DONE")

\* C10: every DONE result carries the exit code the worker wrote to the
\* <taskId> set; none is reported for a task without exit code.
C10_DoneCarriesWrittenCode ==
    \A w \in Waiters :
        wRes[w].state = "DONE" =>
            /\ exitCode[wTask[w]] # None
            /\ wRes[w].code = ParseInt(exitCode[wTask[w]])

\* C11: a call that reaches connector.waitForTask(taskId) while a resolver for
\* taskId is installed fails with an error and leaves the table as it was.
C11_DuplicateWaitRejects ==
    [][\A w \in Waiters :
          ( /\ wpc[w] = "peek" /\ wpc'[w] # "peek"
            /\ HasResolver(wTask[w])
            /\ ~(wRes'[w].state = "DONE" /\ wRes'[w].code # NullCode) )
          => /\ wRes'[w].state = "ERROR"
             /\ taskPromiseResolves' = taskPromiseResolves]_vars

\* C12: a waitForTask call with a timeout does not return TIMEOUT when the exit
\* code of its task was in the store at the moment its timer fired.
C12_NoTimeoutAfterWrite ==
    \A w \in Waiters : wRes[w].state = "TIMEOUT" => ~firedAfterWrite[w]

\* C18: the completion loop, once started and until stop() is requested, is
\* inside its polling cycle, whatever store operation raised.
C18_LoopSurvivesStoreErrors ==
    (connectorRunning /\ running) =>
        loopPc \in {"poll", "sleep", "read", "remAbsent", "remPresent"}

\* ------------------------------------------------- rate limiter: the claims
\* Publications issued in the second that starts with publication i.
InSecondFrom(i) ==
    {j \in 1..Len(pubLog) :
        pubLog[i].at <= pubLog[j].at /\ pubLog[j].at < pubLog[i].at + WindowMs}

\* Publications issued in window k of the limiter.
InWindow(k) == {j \in 1..Len(pubLog) : pubLog[j].window = k}

\* C19 as stated: under ratePerSec = r, no interval of one second holds more
\* than r publications.
C19_AnySecondAtMostRate ==
    \A i \in 1..Len(pubLog) : Cardinality(InSecondFrom(i)) <= ratePerSec

\* C19: under an integer ratePerSec = r > 0, each window of the limiter (from
\* one reset of windowStart to the next, at least one second) holds at most r
\* publications; an interval of one second holds at most 2r.
C19_WindowAtMostRate ==
    /\ \A k \in 0..windowNo : Cardinality(InWindow(k)) <= ratePerSec
    /\ \A i \in 1..Len(pubLog) : Cardinality(InSecondFrom(i)) <= 2 * ratePerSec

\* C19 witness: with r = 2, two publications in one window and the third, after
\* the limiter's sleep, in a later one.
C19_Witness ==
    /\ ratePerSec = 2 /\ Len(pubLog) = 3
    /\ pubLog[1].window = pubLog[2].window
    /\ pubLog[3].window > pubLog[2].window
    /\ pubLog[3].at >= pubLog[1].at + WindowMs

\* C20 as stated: no publish is issued between a send that found the write
\* buffer full and the following 'drain'.
C20_NoSendBeforeDrain ==
    [][Len(sends') > Len(sends) => undrained = 0]_vars

\* C20: publishBurst returns from a buffer-full send only with the 'drain'; a
\* further publish is issued before that 'drain' only when publishBurst raised
\* for the buffer-full send (the channel emitted 'error' while it waited).
C20_NoSendBeforeDrainOrError ==
    [][/\ (pc = "drain" /\ pc' # "drain" /\ idx \notin pubFailed') => undrained' = 0
       /\ (Len(sends') > Len(sends) /\ undrained # 0) => undrained \in pubFailed]_vars

\* C20 witness: a later plan item was sent after the publishBurst of a
\* buffer-full send raised, no 'drain' having arrived.
C20_Witness ==
    /\ mode = "batch"
    /\ undrained # 0 /\ undrained \in pubFailed
    /\ idx > undrained
    /\ \E i \in 1..Len(sends) : sends[i] = taskId

\* ------------------------------------------------- waitForMany: the claims
\* C13: once waitForMany under failFast has returned FAILED, the table holds
\* no resolver installed by the per-id call of a task id it returned as
\* pending.
C13_FailedLeavesNoResolver ==
    manyRet.state = "FAILED" =>
        \A t \in manyRet.pending :
            ~(HasResolver(t) /\ taskPromiseResolves[t] = CallOf(t))

\* C15: waitForMany returns DONE only with every distinct input id exactly once
\* in done and nothing pending, FAILED only under failFast with a non-zero code
\* in done; whatever it returns, done and pending hold every distinct input id
\* exactly once.
C15_ManyResultPartitionsIds ==
    /\ manyRet.state = "DONE" =>
          /\ manyRet.pending = {}
          /\ DoneIds(manyRet.done) = manyIds
    /\ manyRet.state = "FAILED" =>
          /\ failFast
          /\ \E i \in 1..Len(manyRet.done) : manyRet.done[i].code \notin {0, NullCode}
    /\ manyRet.state \in {"DONE", "FAILED", "TIMEOUT"} =>
          /\ Len(manyRet.done) = Cardinality(DoneIds(manyRet.done))
          /\ DoneIds(manyRet.done) \cap manyRet.pending = {}
          /\ DoneIds(manyRet.done) \cup manyRet.pending = manyIds

\* C15 witness: waitForMany over two ids returned FAILED with one id done and
\* the other pending.
C15_Witness ==
    /\ manyRet.state = "FAILED"
    /\ Cardinality(manyIds) = 2
    /\ Cardinality(manyRet.pending) = 1
    /\ Len(manyRet.done) = 1

\* --------------------------------------------------- watchWork: the claims
WatchReturned == watchRet.state \in {"DONE", "TIMEOUT", "IDLE"}

\* C14: after createBatch returned n tasks without error for work w, a
\* watchWork(client, w) call without opts.expected reports total = n and does
\* not return DONE before all n tasks have an exit code.
C14_WatchCoversTheBatch ==
    (WatchReturned /\ optExpected = 0) =>
        /\ watchRet.total = Len(ret.tasks)
        /\ watchRet.state = "DONE" =>
              \A i \in 1..Len(ret.tasks) : exitCode[ret.tasks[i].taskId] # None

\* C16: watchWork returns DONE only with at least `expected` results; its
\* results hold each task id at most once, only ids of the snapshot, and never
\* more than `expected` entries; the total it returns equals `expected`.
C16_WatchResultsWithinSnapshot ==
    /\ watchRet.state = "DONE" => Len(watchRet.results) >= expected
    /\ Len(watchResults) = Cardinality(DoneIds(watchResults))
    /\ DoneIds(watchResults) \subseteq {taskIds[i] : i \in 1..Len(taskIds)}
    /\ Len(watchResults) <= expected
    /\ WatchReturned => watchRet.total = expected

\* C17: watchWork returns IDLE only when idleSec > 0, fewer than `expected`
\* results are recorded and the latest recording is at least idleSec old; it
\* returns TIMEOUT only when timeoutSec > 0 and at least timeoutSec have passed
\* since `start`.
C17_IdleAndTimeoutOnlyWhenDue ==
    [][/\ (watchRet.state = "NONE" /\ watchRet'.state = "IDLE") =>
              /\ idleMs > 0
              /\ Len(watchRet'.results) < expected
              /\ now - recordedAt' >= idleMs
       /\ (watchRet.state = "NONE" /\ watchRet'.state = "TIMEOUT") =>
              /\ timeoutMs > 0
              /\ now - start >= timeoutMs]_vars

\* C17 witness: IDLE returned after a completion recorded in the loop had reset
\* the idle clock.
C17_Witness ==
    /\ watchRet.state = "IDLE"
    /\ Len(watchRet.results) = 1
    /\ recordedAt > start
    /\ now - recordedAt >= idleMs

\* ================================================================ AmqpConnector
\* src/connectors/amqpConnector.js.  connState[c] follows one amqplib.connect
\* call: "connecting" while it is in flight, then "failed", or "open" and,
\* after the connection's 'error'/'close', "closed".  chanState[k] follows one
\* body of _initialize (lines 101-120): "awaitConn" while it awaits
\* _getConnection, "opening" while conn.createChannel is in flight, then
\* "failed" when it rejected, or "open"/"closed": the state of the channel it
\* put in this.channels.

FreeConns == {c \in ConnIds : connState[c] = "unused"}
FreeChans == {k \in ChanIds : chanState[k] = "unused"}
Lowest(S) == CHOOSE x \in S : \A y \in S : x <= y
DroppedConns == {c \in ConnIds : connState[c] = "closed"}

\* amqpConnector.js 103: conn.createChannel() on connection c; on a connection
\* that is no longer open the call fails.
CreateChannelOn(c) == IF connState[c] = "open" THEN "opening" ELSE "failed"

\* Variant of getConnection without the shared connect promise of lines 41
\* and 75: every caller that finds no connection starts a connect of its own.
getConnectionUnshared(k, q) ==
    /\ chanQueue' = [chanQueue EXCEPT ![k] = q]
    /\ IF conn # 0
       THEN /\ chanState' = [chanState EXCEPT ![k] = CreateChannelOn(conn)]
            /\ chanConn' = [chanConn EXCEPT ![k] = conn]
            /\ UNCHANGED <<connPromise, connState>>
       ELSE /\ FreeConns # {}
            /\ LET c == Lowest(FreeConns) IN
               /\ connPromise' = c
               /\ connState' = [connState EXCEPT ![c] = "connecting"]
               /\ chanState' = [chanState EXCEPT ![k] = "awaitConn"]
               /\ chanConn' = [chanConn EXCEPT ![k] = c]

\* amqpConnector.js 38-76 as called from line 102 by the _initialize body k for
\* queue q: the connection held is returned (and createChannel is called on
\* it); else the connect promise in the cache is awaited; else a connect is
\* started and its promise cached.
getConnection(k, q) ==
    /\ chanQueue' = [chanQueue EXCEPT ![k] = q]
    /\ IF conn # 0
       THEN /\ chanState' = [chanState EXCEPT ![k] = CreateChannelOn(conn)]
            /\ chanConn' = [chanConn EXCEPT ![k] = conn]
            /\ UNCHANGED <<connPromise, connState>>
       ELSE IF connPromise # 0
       THEN /\ chanState' = [chanState EXCEPT ![k] =
                               CASE connState[connPromise] = "connecting" -> "awaitConn"
                                 [] connState[connPromise] = "failed" -> "failed"
                                 [] OTHER -> CreateChannelOn(connPromise)]
            /\ chanConn' = [chanConn EXCEPT ![k] = connPromise]
            /\ UNCHANGED <<connPromise, connState>>
       ELSE /\ FreeConns # {}
            /\ LET c == Lowest(FreeConns) IN
               /\ connPromise' = c
               /\ connState' = [connState EXCEPT ![c] = "connecting"]
               /\ chanState' = [chanState EXCEPT ![k] = "awaitConn"]
               /\ chanConn' = [chanConn EXCEPT ![k] = c]

\* What follows `await this._initialize(queueName)` in the three methods, for
\* the call op; ch is this.channels.get(queueName), open whether that channel
\* is open, full whether sendToQueue answers false.
\*   publish 176-180: sendToQueue, return.
\*   checkQueue 139-142: the passive check is issued and awaited.
\*   publishBurst 193-204: sendToQueue, then the wait for 'drain' when it
\*   answered false.
\* On a closed channel sendToQueue throws and checkQueue rejects.
Proceed(op, ch, open, full) ==
    IF ~open THEN [op EXCEPT !.pc = "raised", !.ch = ch, !.k = 0]
    ELSE CASE op.kind = "publish" -> [op EXCEPT !.pc = "returned", !.ch = ch, !.k = 0]
           [] op.kind = "checkQueue" -> [op EXCEPT !.pc = "rpc", !.ch = ch, !.k = 0]
           [] OTHER -> [op EXCEPT !.pc = IF full THEN "drain" ELSE "returned",
                                  !.ch = ch, !.k = 0]

OpKinds == {"publish", "checkQueue", "publishBurst"}

\* checkQueue(q) / publish(_, q) / publishBurst(q, _) is called: _initialize
\* 97-126 up to its first await that waits for the broker.
\*   98: a cached channel ends _initialize, the method goes on with it;
\*   100, 125: a channel open in the table is awaited (at once it raises when
\*   that open has already rejected);
\*   101-122: else a new body is started and entered in the table.
amqpCall(o, kind, q) ==
    /\ amqpOp[o].pc = "idle"
    /\ \A p \in 1..(o - 1) : amqpOp[p].pc # "idle"
    /\ LET started == [amqpOp[o] EXCEPT !.kind = kind, !.q = q,
                                        !.dropped = DroppedConns] IN
       IF channels[q] # 0
       THEN /\ amqpOp' = [amqpOp EXCEPT ![o] =
                            Proceed(started, channels[q],
                                    chanState[channels[q]] = "open", bufferFull)]
            /\ UNCHANGED <<conn, connPromise, channels, channelPromises, connState,
                           chanState, chanQueue, chanConn>>
       ELSE IF channelPromises[q] # 0
       THEN /\ amqpOp' = [amqpOp EXCEPT ![o] =
                            IF chanState[channelPromises[q]] = "failed"
                            THEN [started EXCEPT !.pc = "raised"]
                            ELSE [started EXCEPT !.pc = "init",
                                                 !.k = channelPromises[q]]]
            /\ UNCHANGED <<conn, connPromise, channels, channelPromises, connState,
                           chanState, chanQueue, chanConn>>
       ELSE /\ FreeChans # {}
            /\ LET k == Lowest(FreeChans) IN
               /\ getConnection(k, q)
               /\ channelPromises' = [channelPromises EXCEPT ![q] = k]
               /\ amqpOp' = [amqpOp EXCEPT ![o] =
                               IF chanState'[k] = "failed"
                               THEN [started EXCEPT !.pc = "raised"]
                               ELSE [started EXCEPT !.pc = "init", !.k = k]]
            /\ UNCHANGED <<conn, channels>>
    /\ UNCHANGED <<coreVars, notAmqpVars, bufferFull>>

\* The calls that await a channel open of the set K raise with it.
RaiseAwaiting(K) ==
    [o \in OpIds |-> IF amqpOp[o].pc = "init" /\ amqpOp[o].k \in K
                     THEN [amqpOp[o] EXCEPT !.pc = "raised", !.k = 0]
                     ELSE amqpOp[o]]

\* amqplib.connect of line 46 settles.  Fulfilled (47-71): this.conn is set,
\* and every _initialize body that awaited the promise calls createChannel
\* (103).  Rejected: those bodies reject, and so do the calls awaiting them.
connectReply(c, ok) ==
    /\ connState[c] = "connecting"
    /\ IF ok
       THEN /\ connState' = [connState EXCEPT ![c] = "open"]
            /\ conn' = c
            /\ chanState' = [k \in ChanIds |->
                               IF chanState[k] = "awaitConn" /\ chanConn[k] = c
                               THEN "opening" ELSE chanState[k]]
            /\ UNCHANGED amqpOp
       ELSE /\ connState' = [connState EXCEPT ![c] = "failed"]
            /\ UNCHANGED conn
            /\ chanState' = [k \in ChanIds |->
                               IF chanState[k] = "awaitConn" /\ chanConn[k] = c
                               THEN "failed" ELSE chanState[k]]
            /\ amqpOp' = RaiseAwaiting({k \in ChanIds : chanState[k] = "awaitConn"
                                                        /\ chanConn[k] = c})
    /\ UNCHANGED <<coreVars, notAmqpVars, connPromise, channels, channelPromises, chanQueue,
                   chanConn, bufferFull>>

\* conn.createChannel of line 103 settles for the body k.  Fulfilled
\* (106-119): the handlers are installed and the channel is put in
\* this.channels, then the calls awaiting the body go on.  Rejected: the body
\* rejects and so do the calls awaiting it.  When the connection was dropped
\* while the open was in flight, the reply is the broker's channel.open-ok
\* received before the drop (the channel handed over is closed already) or
\* the rejection of the pending open.
createChannelReply(k, ok) ==
    /\ chanState[k] = "opening"
    /\ LET open == connState[chanConn[k]] = "open" IN
       IF ok
       THEN /\ chanState' = [chanState EXCEPT ![k] = IF open THEN "open" ELSE "closed"]
            /\ channels' = [channels EXCEPT ![chanQueue[k]] = k]
            /\ amqpOp' = [o \in OpIds |->
                            IF amqpOp[o].pc = "init" /\ amqpOp[o].k = k
                            THEN Proceed(amqpOp[o], k, open, bufferFull)
                            ELSE amqpOp[o]]
       ELSE /\ chanState' = [chanState EXCEPT ![k] = "failed"]
            /\ UNCHANGED channels
            /\ amqpOp' = RaiseAwaiting({k})
    /\ UNCHANGED <<coreVars, notAmqpVars, conn, connPromise, channelPromises, connState, chanQueue,
                   chanConn, bufferFull>>

\* The calls whose passive check is in flight on a channel of K raise
\* (checkQueue 150-151), and with `error` so do those waiting for 'drain' on
\* it (events.once rejects on 'error'); without, the latter keep waiting.
RaiseOn(K, error) ==
    [o \in OpIds |-> IF /\ amqpOp[o].ch \in K
                        /\ \/ amqpOp[o].pc = "rpc"
                           \/ amqpOp[o].pc = "drain" /\ error
                     THEN [amqpOp[o] EXCEPT !.pc = "raised"]
                     ELSE amqpOp[o]]

\* amqpConnector.js 106-116: the channel k emits 'error' or 'close'; cleanup
\* deletes the entries of its queue name from both tables.
channelEvent(k, error) ==
    /\ chanState[k] = "open"
    /\ chanState' = [chanState EXCEPT ![k] = "closed"]
    /\ channels' = [channels EXCEPT ![chanQueue[k]] = 0]
    /\ channelPromises' = [channelPromises EXCEPT ![chanQueue[k]] = 0]
    /\ amqpOp' = RaiseOn({k}, error)
    /\ UNCHANGED <<coreVars, notAmqpVars, conn, connPromise, connState, chanQueue, chanConn,
                   bufferFull>>

\* checkQueue 141-152: the reply of the passive check.  The queue exists: true.
\* It does not: the broker closes the channel with 404, the channel emits
\* 'error' (cleanup, 112-115) and the call returns false.
checkQueueReply(o, exists) ==
    /\ amqpOp[o].pc = "rpc"
    /\ IF exists
       THEN /\ amqpOp' = [amqpOp EXCEPT ![o] = [@ EXCEPT !.pc = "returned",
                                                         !.val = "true"]]
            /\ UNCHANGED <<chanState, channels, channelPromises>>
       ELSE LET k == amqpOp[o].ch IN
            /\ chanState' = [chanState EXCEPT ![k] = "closed"]
            /\ channels' = [channels EXCEPT ![chanQueue[k]] = 0]
            /\ channelPromises' = [channelPromises EXCEPT ![chanQueue[k]] = 0]
            /\ amqpOp' = [RaiseOn({k}, TRUE) EXCEPT ![o] =
                            [amqpOp[o] EXCEPT !.pc = "returned", !.val = "false"]]
    /\ UNCHANGED <<coreVars, notAmqpVars, conn, connPromise, connState, chanQueue, chanConn,
                   bufferFull>>

\* amqpConnector.js 50-57, 82-91: the connection c emits 'error' and/or 'close'
\* (amqplib emits both in one turn): _teardownConnection clears the connection,
\* the connect promise and both tables, and removes every listener of the
\* cached channels.  The channels of the connection are closed; a passive
\* check in flight on them rejects.
connectionEvent(c) ==
    /\ connState[c] = "open"
    /\ connState' = [connState EXCEPT ![c] = "closed"]
    /\ conn' = 0
    /\ connPromise' = 0
    /\ channels' = [q \in QueueNames |-> 0]
    /\ channelPromises' = [q \in QueueNames |-> 0]
    /\ chanState' = [k \in ChanIds |->
                       IF chanState[k] = "open" /\ chanConn[k] = c
                       THEN "closed" ELSE chanState[k]]
    /\ amqpOp' = RaiseOn({k \in ChanIds : chanConn[k] = c}, FALSE)
    /\ bufferFull' = FALSE
    /\ UNCHANGED <<coreVars, notAmqpVars, chanQueue, chanConn>>

\* The write buffer of the connection fills up: sendToQueue answers false from
\* now on (publishBurst 196-198).
bufferFills ==
    /\ conn # 0
    /\ ~bufferFull
    /\ bufferFull' = TRUE
    /\ UNCHANGED <<coreVars, notAmqpVars, conn, connPromise, channels, channelPromises, connState,
                   chanState, chanQueue, chanConn, amqpOp>>

\* The write buffer drains: the open channels emit 'drain' and the
\* publishBurst calls waiting on them return (200-201).
bufferDrains ==
    /\ bufferFull
    /\ bufferFull' = FALSE
    /\ amqpOp' = [o \in OpIds |->
                    IF amqpOp[o].pc = "drain" /\ chanState[amqpOp[o].ch] = "open"
                    THEN [amqpOp[o] EXCEPT !.pc = "returned"]
                    ELSE amqpOp[o]]
    /\ UNCHANGED <<coreVars, notAmqpVars, conn, connPromise, channels, channelPromises, connState,
                   chanState, chanQueue, chanConn>>

NextAmqp ==
    \/ \E o \in OpIds, kind \in OpKinds, q \in QueueNames : amqpCall(o, kind, q)
    \/ \E c \in ConnIds, ok \in BOOLEAN : connectReply(c, ok)
    \/ \E k \in ChanIds, ok \in BOOLEAN : createChannelReply(k, ok)
    \/ \E k \in ChanIds, error \in BOOLEAN : channelEvent(k, error)
    \/ \E o \in OpIds, exists \in BOOLEAN : checkQueueReply(o, exists)
    \/ \E c \in ConnIds : connectionEvent(c)
    \/ bufferFills
    \/ bufferDrains

\* The engines before any call, for the runs of the library parts on their own.
InitIdle ==
    /\ ratePerSec = 0
    /\ InitEngines
    /\ mode = "single"
    /\ clientWorkId = ClientMintedWorkId
    /\ manifestWorkId = None
    /\ queueExists

\* An AmqpConnector right after construction (InitAmqp).
InitConnector == InitIdle /\ InitLib

SpecAmqp == InitConnector /\ [][NextAmqp]_vars

C22_DropDiscardsEverything ==
    [][/\ (\E c \in ConnIds : connState[c] = "open" /\ connState'[c] = "closed")
          => /\ conn' = 0 /\ connPromise' = 0
             /\ \A q \in QueueNames : channels'[q] = 0 /\ channelPromises'[q] = 0
       /\ \A o \in OpIds : amqpOp'[o].ch # 0
                              => chanConn'[amqpOp'[o].ch] \notin amqpOp'[o].dropped]_vars

\* C23: the channel cache never holds a closed channel, at most one channel
\* is open or being opened per queue name on a connection that was not
\* dropped, and a channel 'error'/'close' (the 404 of checkQueue included) leaves its queue
\* name without entry in both tables.
C23_CacheHoldsOneLiveChannel ==
    [][/\ \A q \in QueueNames :
             /\ channels'[q] # 0 => chanState'[channels'[q]] = "open"
             /\ Cardinality({k \in ChanIds :
                                 /\ chanQueue'[k] = q
                                 /\ chanState'[k] \in {"awaitConn", "opening", "open"}
                                 /\ connState'[chanConn'[k]] # "closed"}) <= 1
       /\ \A k \in ChanIds :
             chanState[k] = "open" /\ chanState'[k] = "closed"
             => channels'[chanQueue[k]] = 0 /\ channelPromises'[chanQueue[k]] = 0]_vars

\* ==================================================== expandInputPlaceholders
\* src/unnamed/part_001.  A JavaScript value is a record: t is its type
\* ("str", "num"), s the characters of a string, n the value of a number.
StrVal(chars) == [t |-> "str", s |-> chars, n |-> 0]
NumVal(v) == [t |-> "num", s |-> <<>>, n |-> v]

Digits == {"0", "1", "2", "3", "4", "5", "6", "7", "8", "9"}
DigitValue == ("0" :> 0) @@ ("1" :> 1) @@ ("2" :> 2) @@ ("3" :> 3) @@ ("4" :> 4)
              @@ ("5" :> 5) @@ ("6" :> 6) @@ ("7" :> 7) @@ ("8" :> 8) @@ ("9" :> 9)

\* Number(m[1]) for a string of decimal digits.
RECURSIVE NumberOf(_)
NumberOf(ds) == IF ds = <<>> THEN 0
                ELSE 10 * NumberOf(SubSeq(ds, 1, Len(ds) - 1)) + DigitValue[ds[Len(ds)]]

\* part_001 19: a.match(/^\{in(\d+)\}$/).
MatchesInN(chars) ==
    /\ Len(chars) >= 5
    /\ chars[1] = "{" /\ chars[2] = "i" /\ chars[3] = "n" /\ chars[Len(chars)] = "}"
    /\ \A i \in 4..(Len(chars) - 1) : chars[i] \in Digits

\* m[1]: the group (\d+).
GroupOf(chars) == SubSeq(chars, 4, Len(chars) - 1)

\* Variant of expandArg whose '{in}' takes the first basename whenever there is
\* one (without the `basenames.length === 1` of line 10).
expandArgFirstOfMany(a, basenames) ==
    IF a.t # "str" THEN a
    ELSE IF a.s = <<"{", "i", "n", "}">>
    THEN IF Len(basenames) >= 1 THEN basenames[1] ELSE a
    ELSE IF MatchesInN(a.s)
    THEN IF NumberOf(GroupOf(a.s)) < Len(basenames)
         THEN basenames[NumberOf(GroupOf(a.s)) + 1]
         ELSE a
    ELSE a

\* part_001 10-28: the callback of args.map; `one` is basenames[0] when there
\* is exactly one basename.
expandArg(a, basenames) ==
    IF a.t # "str" THEN a
    ELSE IF a.s = <<"{", "i", "n", "}">>
    THEN IF Len(basenames) = 1 THEN basenames[1] ELSE a
    ELSE IF MatchesInN(a.s)
    THEN IF NumberOf(GroupOf(a.s)) < Len(basenames)
         THEN basenames[NumberOf(GroupOf(a.s)) + 1]
         ELSE a
    ELSE a

\* part_001 8-30, for an array args and an array basenames.
expandInputPlaceholders(args, basenames) ==
    [i \in 1..Len(args) |-> expandArg(args[i], basenames)]

\* The arguments the runs draw from: placeholders in and out of range, with a
\* leading zero, near misses of both patterns, a plain string, the empty
\* string and a number.
ArgValues == {StrVal(<<"{", "i", "n", "}">>),
              StrVal(<<"{", "i", "n", "0", "}">>),
              StrVal(<<"{", "i", "n", "1", "}">>),
              StrVal(<<"{", "i", "n", "0", "1", "}">>),
              StrVal(<<"{", "i", "n", "2", "}">>),
              StrVal(<<"{", "i", "n", "1", "0", "}">>),
              StrVal(<<"{", "i", "n", "x", "}">>),
              StrVal(<<"{", "i", "n", "}", "x">>),
              StrVal(<<"-", "{", "i", "n", "0", "}">>),
              StrVal(<<"{", "i", "n", "0", "}", "}">>),
              StrVal(<<"-", "v">>),
              StrVal(<<>>),
              NumVal(1)}
\* The basenames the runs draw from.
NameValues == {StrVal(<<"a">>), StrVal(<<"b">>)}

RECURSIVE SeqsUpTo(_, _)
\* The sequences over S of length n at most.
SeqsUpTo(S, n) == IF n = 0 THEN {<<>>}
                  ELSE SeqsUpTo(S, n - 1)
                       \cup {Append(q, x) : q \in SeqsUpTo(S, n - 1), x \in S}

\* expandInputPlaceholders(args, basenames) is called and returns.
expandCall ==
    /\ tplPc = "call"
    /\ tplPc' = "returned"
    /\ tplOut' = expandInputPlaceholders(tplArgs, tplBasenames)
    /\ UNCHANGED <<coreVars, amqpVars, idVars, planVars, tplArgs, tplBasenames>>

NextTemplater == expandCall

\* A call of expandInputPlaceholders on an args array and a basenames array.
InitTemplater ==
    /\ InitIdle
    /\ InitAmqp
    /\ InitIdsIdle
    /\ InitPlanIdle
    /\ tplPc = "call"
    /\ tplArgs \in SeqsUpTo(ArgValues, MaxArgs)
    /\ tplBasenames \in SeqsUpTo(NameValues, MaxNames)
    /\ tplOut = <<>>

SpecTemplater == InitTemplater /\ [][NextTemplater]_vars

\* The text of '{inN}': "{in", the decimal digits of N (any number of leading
\* zeros), "}".
IsPlaceholderOf(chars, N) ==
    \E ds \in SeqsUpTo(Digits \cap {"0", "1", "2"}, 2) :
        /\ ds # <<>>
        /\ chars = <<"{", "i", "n">> \o ds \o <<"}">>
        /\ NumberOf(ds) = N

\* C28: the result has the length of args, and each element is basenames[0]
\* for '{in}' with exactly one basename, basenames[N] for '{inN}' with
\* N < len(basenames), and the argument itself in every other case.
C28_ExpandsPlaceholdersOnly ==
    tplPc = "returned" =>
        /\ Len(tplOut) = Len(tplArgs)
        /\ \A i \in 1..Len(tplArgs) :
             LET a == tplArgs[i] IN
             IF a = StrVal(<<"{", "i", "n", "}">>) /\ Len(tplBasenames) = 1
             THEN tplOut[i] = tplBasenames[1]
             ELSE IF a.t = "str" /\ \E N \in 0..(Len(tplBasenames) - 1) :
                                        IsPlaceholderOf(a.s, N)
             THEN \E N \in 0..(Len(tplBasenames) - 1) :
                      IsPlaceholderOf(a.s, N) /\ tplOut[i] = tplBasenames[N + 1]
             ELSE tplOut[i] = a

\* A call with two basenames has returned: '{in}' was left as it is and
\* '{in01}' became the second basename.
C28_Witness ==
    /\ tplPc = "returned"
    /\ Len(tplBasenames) = 2
    /\ tplArgs = <<StrVal(<<"{", "i", "n", "}">>), StrVal(<<"{", "i", "n", "0", "1", "}">>)>>
    /\ tplOut = <<StrVal(<<"{", "i", "n", "}">>), tplBasenames[2]>>

\* ========================================================= task id strings
\* src/utils/ids.js and src/unnamed/part_000, on strings as sequences of
\* characters.

\* utils/ids.js 12-16, the generateTaskId submit.js imports (submit.js 3):
\* `work:${workId}:task:${ts}-${rnd}`; suffix stands for `${ts}-${rnd}`.
idsGenerateTaskId(w, suffix) ==
    <<"w", "o", "r", "k", ":">> \o w \o <<":", "t", "a", "s", "k", ":">> \o suffix

\* part_000 12-16: `wf:${workId}:task:${ts}-${rnd}`.
part000GenerateTaskId(w, suffix) ==
    <<"w", "f", ":">> \o w \o <<":", "t", "a", "s", "k", ":">> \o suffix

\* The first position from i on that holds ':' (Len + 1 when none does).
RECURSIVE ColonFrom(_, _)
ColonFrom(chars, i) == IF i > Len(chars) THEN i
                       ELSE IF chars[i] = ":" THEN i
                       ELSE ColonFrom(chars, i + 1)

\* part_000 18-21: /^wf:([^:]+):task:/.exec(taskId); m[1] or null.  The group
\* runs from the fourth character to the next ':'.
extractWorkId(chars) ==
    LET c == ColonFrom(chars, 4) IN
    IF /\ Len(chars) >= 3
       /\ SubSeq(chars, 1, 3) = <<"w", "f", ":">>
       /\ c > 4
       /\ c + 5 <= Len(chars)
       /\ SubSeq(chars, c, c + 5) = <<":", "t", "a", "s", "k", ":">>
    THEN StrVal(SubSeq(chars, 4, c - 1))
    ELSE NullVal

\* `${ts}-${rnd}`: decimal milliseconds, '-', 8 hex digits (shortened).
IdSuffixes == {<<"1", "7", "-", "0", "a">>, <<"2", "-", "f", "f">>}

\* The submission engine mints a task id (submit.js 26, 61: generateTaskId of
\* utils/ids.js).
mintInEngine(suffix) ==
    /\ idPc = "call"
    /\ idPc' = "minted"
    /\ idMinter' = "utils/ids"
    /\ idTaskId' = idsGenerateTaskId(idWorkId, suffix)
    /\ UNCHANGED <<coreVars, amqpVars, tplVars, planVars, idWorkId, idExtracted>>

\* A task id is minted with the generateTaskId of part_000.
mintInPart000(suffix) ==
    /\ idPc = "call"
    /\ idPc' = "minted"
    /\ idMinter' = "part_000"
    /\ idTaskId' = part000GenerateTaskId(idWorkId, suffix)
    /\ UNCHANGED <<coreVars, amqpVars, tplVars, planVars, idWorkId, idExtracted>>

\* extractWorkId is applied to the task id minted.
extractCall ==
    /\ idPc = "minted"
    /\ idPc' = "extracted"
    /\ idExtracted' = extractWorkId(idTaskId)
    /\ UNCHANGED <<coreVars, amqpVars, tplVars, planVars, idWorkId, idMinter, idTaskId>>

NextIds ==
    \/ \E suffix \in IdSuffixes : mintInEngine(suffix)
    \/ \E suffix \in IdSuffixes : mintInPart000(suffix)
    \/ extractCall

\* A non-empty work id over letters and ':'.
InitIds ==
    /\ InitIdle
    /\ InitAmqp
    /\ InitTplIdle
    /\ InitPlanIdle
    /\ idPc = "call"
    /\ idWorkId \in SeqsUpTo({"a", "b", ":"}, MaxWorkIdLen) \ {<<>>}
    /\ idMinter = None
    /\ idTaskId = <<>>
    /\ idExtracted = NullVal

SpecIds == InitIds /\ [][NextIds]_vars

\* C27: for a work id w without ':', extractWorkId of the task id the
\* submission engine minted for w is w.
C27_ExtractInvertsEngineMint ==
    /\ idPc = "extracted"
    /\ idMinter = "utils/ids"
    /\ \A i \in 1..Len(idWorkId) : idWorkId[i] # ":"
    => idExtracted = StrVal(idWorkId)

\* ===================================================================== planBatch
\* src/unnamed/part_002 (planBatch, packToPlan) over src/storage/s3.js
\* (listObjects, listPrefixesAtDepth).  One action per ListObjectsV2 request:
\* the request, its response and the code up to the next request.
\*
\* The bucket: under the base prefix, bucket.nObj objects in key order, the
\* third and later ones in the sub-folder "sub/"; and a tree of prefixes in
\* which every prefix of level d - 1 has bucket.fanout[d] child prefixes.  A
\* prefix is the sequence of child numbers that leads to it, the base prefix
\* is <<>>.  A listing response holds bucket.objPage entries (object
\* listing) or bucket.prefPage entries (prefix listing) at most.

BasePrefix == <<>>
BucketName == "b"
DigitChar == <<"1", "2", "3", "4", "5", "6", "7", "8", "9">>

\* The i-th object key; name is path.basename(key), ext what the globs of
\* include/exclude look at.
KeyOf(i) == [dir |-> IF i >= 3 THEN "sub/" ELSE "",
             name |-> <<"f", DigitChar[i]>>,
             ext |-> IF i % 2 = 0 THEN "tmp" ELSE "csv"]
SubFolder == [dir |-> "sub/", name |-> <<>>, ext |-> ""]

Smaller(a, b) == IF a <= b THEN a ELSE b

\* The entries ListObjectsV2 lists under the base prefix: every key without
\* Delimiter (recursive), the direct keys and the common prefix "sub/" with
\* Delimiter '/' (s3.js 42-47).
Entries(recursive) ==
    IF recursive
    THEN [i \in 1..bucket.nObj |-> [isPrefix |-> FALSE, key |-> KeyOf(i)]]
    ELSE [i \in 1..Smaller(bucket.nObj, 2) |-> [isPrefix |-> FALSE, key |-> KeyOf(i)]]
         \o (IF bucket.nObj >= 3 THEN <<[isPrefix |-> TRUE, key |-> SubFolder]>>
             ELSE <<>>)

\* The response to a request with ContinuationToken token (0: none): the
\* entries of the page, IsTruncated and NextContinuationToken.
ObjectsResponse(recursive, token) ==
    LET all == Entries(recursive)
        last == Smaller(token + bucket.objPage, Len(all)) IN
    [entries |-> SubSeq(all, token + 1, last),
     truncated |-> last < Len(all),
     nextToken |-> last]

\* The child prefixes of prefix p, in listing order.
Children(p) ==
    IF Len(p) >= Len(bucket.fanout) THEN <<>>
    ELSE [j \in 1..bucket.fanout[Len(p) + 1] |-> Append(p, j)]

\* The response to the request of s3.js 92-96 for prefix p.  The command
\* carries no ContinuationToken: what comes back is the first page.
PrefixesResponse(p) ==
    LET all == Children(p)
        last == Smaller(bucket.prefPage, Len(all)) IN
    [cps |-> SubSeq(all, 1, last), truncated |-> last < Len(all)]

\* part_002 15-20: the options of spec.io.batch with their defaults.
BaseInput == planSpec.inputs[1]
Grouping == IF planSpec.grouping = None THEN "object" ELSE planSpec.grouping
PrefixDepthOf == IF planSpec.prefixDepth = Absent THEN 1 ELSE planSpec.prefixDepth
MaxPerTaskOf == IF planSpec.maxPerTask = Absent \/ planSpec.maxPerTask <= 0 THEN 1
                ELSE planSpec.maxPerTask

\* s3.js 54-61: the include and exclude filters; a glob is modelled by the
\* extension it selects.
Passes(key, base) ==
    /\ base.include # {} => key.ext \in base.include
    /\ base.exclude # {} => key.ext \notin base.exclude

\* Variant of singlePlanItem that leaves spec.io.inputs out of the item.
singlePlanItemNoInputs(spec) ==
    [inputs |-> <<>>, localInputs |-> <<>>, args |-> spec.args,
     source |-> [single |-> TRUE]]

\* part_002 25-30: the item of a spec without batch.
singlePlanItem(spec) ==
    [inputs |-> spec.inputs, localInputs |-> <<>>, args |-> spec.args,
     source |-> [single |-> TRUE]]

\* part_002 54-65: the item of prefix p.
prefixPlanItem(p, spec, base) ==
    [inputs |-> <<[bucket |-> base.bucket, prefix |-> p, recursive |-> TRUE,
                   include |-> base.include, exclude |-> base.exclude]>>,
     localInputs |-> <<>>, args |-> spec.args, source |-> [prefix |-> p]]

\* part_002 100-112.
packToPlan(pk, spec, base) ==
    [inputs |-> [i \in 1..Len(pk) |-> [bucket |-> pk[i].remote.bucket,
                                       key |-> pk[i].remote.key]],
     localInputs |-> [i \in 1..Len(pk) |-> [name |-> pk[i].basename,
                                            workflow_input |-> TRUE]],
     args |-> expandInputPlaceholders(spec.args,
                                      [i \in 1..Len(pk) |-> StrVal(pk[i].basename)]),
     source |-> [keys |-> [i \in 1..Len(pk) |-> pk[i].remote.key]],
     include |-> base.include,
     exclude |-> base.exclude]

\* Variant of Consume that emits a pack only once it holds more than
\* maxPerTask objects (`>` for the `>=` of part_002 90).
RECURSIVE ConsumeOverfull(_, _)
ConsumeOverfull(st, entries) ==
    IF entries = <<>> \/ st.stopped THEN st
    ELSE LET e == Head(entries) IN
         IF e.isPrefix \/ ~Passes(e.key, BaseInput)
         THEN ConsumeOverfull(st, Tail(entries))
         ELSE LET pushed == Append(st.pack, [remote |-> [bucket |-> BucketName,
                                                         key |-> e.key],
                                             basename |-> e.key.name])
                  full == Len(pushed) > MaxPerTaskOf
              IN ConsumeOverfull(
                     [pack |-> IF full THEN <<>> ELSE pushed,
                      plan |-> IF full
                               THEN Append(st.plan, packToPlan(pushed, planSpec, BaseInput))
                               ELSE st.plan,
                      yielded |-> st.yielded + 1,
                      stopped |-> BaseInput.maxFiles # 0
                                  /\ st.yielded + 1 >= BaseInput.maxFiles],
                     Tail(entries))

\* The objects of one response go through listObjects and planBatch:
\* s3.js 50-66 filters and yields them one by one and returns once maxFiles
\* are yielded (stopped); part_002 82-93 pushes each to the pack and emits the
\* pack when it holds maxPerTask.  st = [pack, plan, yielded, stopped].
RECURSIVE Consume(_, _)
Consume(st, entries) ==
    IF entries = <<>> \/ st.stopped THEN st
    ELSE LET e == Head(entries) IN
         IF e.isPrefix \/ ~Passes(e.key, BaseInput)
         THEN Consume(st, Tail(entries))
         ELSE LET pushed == Append(st.pack, [remote |-> [bucket |-> BucketName,
                                                         key |-> e.key],
                                             basename |-> e.key.name])
                  full == Len(pushed) >= MaxPerTaskOf
              IN Consume(
                     [pack |-> IF full THEN <<>> ELSE pushed,
                      plan |-> IF full
                               THEN Append(st.plan, packToPlan(pushed, planSpec, BaseInput))
                               ELSE st.plan,
                      yielded |-> st.yielded + 1,
                      stopped |-> BaseInput.maxFiles # 0
                                  /\ st.yielded + 1 >= BaseInput.maxFiles],
                     Tail(entries))

\* part_002 53-67: one item per prefix listPrefixesAtDepth returned.
PrefixItems(prefixes) ==
    [i \in 1..Len(prefixes) |-> prefixPlanItem(prefixes[i], planSpec, BaseInput)]

\* The number of entries of `next` beyond which the process has no memory left.
HeapLimit == 2 * (MaxWidth ^ MaxDepth)

\* planBatch(spec) is called and runs up to its first listing request.
\*   23-32: without batch, the single item is yielded and the generator ends;
\*   34-36: batch without inputs raises;
\*   45-51: prefix grouping calls listPrefixesAtDepth, which returns
\*          [basePrefix] at once for depth <= 0 (s3.js 83);
\*   71-81: object grouping starts listObjects.
planBatchCall ==
    /\ planPc = "call"
    /\ IF ~planSpec.enabled
       THEN /\ plan' = <<singlePlanItem(planSpec)>>
            /\ planPc' = "done"
            /\ UNCHANGED <<lpLevel, lpIdx, lpRet>>
       ELSE IF planSpec.inputs = <<>>
       THEN /\ planPc' = "raised"
            /\ UNCHANGED <<plan, lpLevel, lpIdx, lpRet>>
       ELSE IF Grouping = "prefix"
       THEN IF PrefixDepthOf <= 0
            THEN /\ lpRet' = <<BasePrefix>>
                 /\ plan' = PrefixItems(<<BasePrefix>>)
                 /\ planPc' = "done"
                 /\ UNCHANGED <<lpLevel, lpIdx>>
            ELSE /\ lpLevel' = <<BasePrefix>>
                 /\ lpIdx' = 1
                 /\ planPc' = "listPrefixes"
                 /\ UNCHANGED <<plan, lpRet>>
       ELSE /\ planPc' = "listObjects"
            /\ UNCHANGED <<plan, lpLevel, lpIdx, lpRet>>
    /\ UNCHANGED <<coreVars, amqpVars, tplVars, idVars, planSpec, bucket, pack, loToken,
                   loYielded, lpNext, lpD, requests>>

\* s3.js 88-104: one request of listPrefixesAtDepth for the prefix in hand and
\* what follows its response: the common prefixes are pushed to next (99);
\* a truncated response repeats the do-while for the same prefix (100-101);
\* else the for loop goes to the next prefix, and after the last one the
\* level is replaced by next unless next is empty (103), and after `depth`
\* levels the level is returned (105) and planBatch yields its items.
listPrefixesRequest ==
    /\ planPc = "listPrefixes"
    /\ requests' = requests + 1
    /\ LET resp == PrefixesResponse(lpLevel[lpIdx])
           pushed == lpNext \o resp.cps
           newLevel == IF pushed # <<>> THEN pushed ELSE lpLevel IN
       IF resp.truncated
       THEN /\ lpNext' = pushed
            /\ planPc' = IF Len(pushed) > HeapLimit THEN "exhausted" ELSE planPc
            /\ UNCHANGED <<lpLevel, lpD, lpIdx, lpRet, plan>>
       ELSE IF lpIdx < Len(lpLevel)
       THEN /\ lpNext' = pushed
            /\ lpIdx' = lpIdx + 1
            /\ UNCHANGED <<lpLevel, lpD, lpRet, plan, planPc>>
       ELSE IF lpD + 1 < PrefixDepthOf
       THEN /\ lpLevel' = newLevel
            /\ lpNext' = <<>>
            /\ lpIdx' = 1
            /\ lpD' = lpD + 1
            /\ UNCHANGED <<lpRet, plan, planPc>>
       ELSE /\ lpRet' = newLevel
            /\ plan' = PrefixItems(newLevel)
            /\ planPc' = "done"
            /\ lpNext' = pushed
            /\ lpD' = lpD + 1
            /\ UNCHANGED <<lpLevel, lpIdx>>
    /\ UNCHANGED <<coreVars, amqpVars, tplVars, idVars, planSpec, bucket, pack, loToken,
                   loYielded>>

\* s3.js 41-74 with part_002 82-97: one request of listObjects and what
\* follows its response: the objects of the page are consumed; the generator
\* ends when maxFiles are yielded or the response is not truncated, and
\* planBatch then emits the pack left over (95-97).
listObjectsPage ==
    /\ planPc = "listObjects"
    /\ requests' = requests + 1
    /\ LET resp == ObjectsResponse(BaseInput.recursive, loToken)
           st == Consume([pack |-> pack, plan |-> plan, yielded |-> loYielded,
                          stopped |-> FALSE], resp.entries) IN
       /\ loYielded' = st.yielded
       /\ IF st.stopped \/ ~resp.truncated
          THEN /\ plan' = IF st.pack # <<>>
                          THEN Append(st.plan, packToPlan(st.pack, planSpec, BaseInput))
                          ELSE st.plan
               /\ pack' = st.pack
               /\ planPc' = "done"
               /\ UNCHANGED loToken
          ELSE /\ plan' = st.plan
               /\ pack' = st.pack
               /\ loToken' = resp.nextToken
               /\ UNCHANGED planPc
    /\ UNCHANGED <<coreVars, amqpVars, tplVars, idVars, planSpec, bucket, lpLevel, lpNext,
                   lpD, lpIdx, lpRet>>

NextPlan ==
    \/ planBatchCall
    \/ listPrefixesRequest
    \/ listObjectsPage

\* The inputs of spec.io.inputs: the base input with its filters, and a second
\* input planBatch never looks at.
BaseInputs ==
    [bucket : {BucketName}, prefix : {BasePrefix}, include : {{}, {"csv"}},
     exclude : {{}, {"tmp"}}, recursive : BOOLEAN, maxFiles : {0, 1, MaxObjects - 1}]
PlainInput == [bucket |-> BucketName, prefix |-> BasePrefix, include |-> {},
               exclude |-> {}, recursive |-> TRUE, maxFiles |-> 0]
OtherInput == [bucket |-> "other", prefix |-> BasePrefix, include |-> {},
               exclude |-> {}, recursive |-> TRUE, maxFiles |-> 0]
\* spec.args: none, or placeholders and a plain argument.
SpecArgChoices == {<<>>, <<StrVal(<<"{", "i", "n", "}">>),
                          StrVal(<<"{", "i", "n", "1", "}">>),
                          StrVal(<<"-", "v">>)>>}

\* A planBatch call: without batch; with prefix grouping over a tree of
\* prefixes; with object grouping over a listing of objects.
InitPlan ==
    /\ InitIdle
    /\ InitAmqp
    /\ InitTplIdle
    /\ InitIdsIdle
    /\ planPc = "call"
    /\ plan = <<>>
    /\ pack = <<>>
    /\ loToken = 0
    /\ loYielded = 0
    /\ lpLevel = <<>>
    /\ lpNext = <<>>
    /\ lpD = 0
    /\ lpIdx = 0
    /\ lpRet = <<>>
    /\ requests = 0
    /\ \/ /\ planSpec \in [enabled : {FALSE}, grouping : {None, "object", "prefix"},
                           prefixDepth : {Absent}, maxPerTask : {Absent, MaxPack},
                           inputs : {<<>>, <<PlainInput>>, <<PlainInput, OtherInput>>},
                           args : SpecArgChoices]
          /\ bucket = [nObj |-> MaxObjects, fanout |-> [d \in 1..MaxDepth |-> MaxWidth],
                       objPage |-> 1, prefPage |-> 1]
       \/ /\ planSpec \in [enabled : {TRUE}, grouping : {"prefix"},
                           prefixDepth : {Absent} \cup 0..MaxDepth, maxPerTask : {Absent},
                           inputs : {<<>>, <<PlainInput>>, <<PlainInput, OtherInput>>},
                           args : {<<>>}]
          /\ bucket \in [nObj : {0}, fanout : [1..MaxDepth -> 0..MaxWidth],
                         objPage : {1}, prefPage : {1, MaxWidth}]
       \/ /\ planSpec \in [enabled : {TRUE}, grouping : {None, "object"},
                           prefixDepth : {Absent}, maxPerTask : {Absent} \cup 0..MaxPack,
                           inputs : {<<b>> : b \in BaseInputs},
                           args : SpecArgChoices]
          /\ bucket \in [nObj : 0..MaxObjects, fanout : {[d \in 1..MaxDepth |-> 0]},
                         objPage : {2, MaxObjects}, prefPage : {1}]

SpecPlan == InitPlan /\ [][NextPlan]_vars

RECURSIVE Flatten(_)
\* The concatenation of a sequence of sequences.
Flatten(ss) == IF ss = <<>> THEN <<>> ELSE Head(ss) \o Flatten(Tail(ss))

\* The prefixes of depth d below the base prefix, in listing order; a level
\* without any child prefix stands for the level above it.
RECURSIVE LevelAt(_)
LevelAt(d) ==
    IF d <= 0 THEN <<BasePrefix>>
    ELSE LET up == LevelAt(d - 1)
             kids == Flatten([i \in 1..Len(up) |-> Children(up[i])]) IN
         IF kids = <<>> THEN up ELSE kids

PrefixRun == planSpec.enabled /\ planSpec.inputs # <<>> /\ Grouping = "prefix"
ObjectRun == planSpec.enabled /\ planSpec.inputs # <<>> /\ Grouping = "object"

\* C24: listPrefixesAtDepth terminates (it does not collect prefixes until
\* memory runs out), never collects a child prefix twice, and returns the
\* child prefixes of the requested depth, each once, in listing order, also
\* when the listing of a level comes in several pages.
C24_EveryChildPrefixOnce ==
    PrefixRun =>
        /\ planPc # "exhausted"
        /\ \A i, j \in 1..Len(lpNext) : i # j => lpNext[i] # lpNext[j]
        /\ planPc = "done" => lpRet = LevelAt(PrefixDepthOf)

\* C26: planBatch with grouping 'prefix' and prefixDepth d comes to its end
\* with exactly one item per child prefix of depth d (of the level above when
\* level d has no child prefix), in listing order, each with
\* inputs[0].prefix = source.prefix = that prefix.
C26_OneItemPerPrefix ==
    PrefixRun =>
        /\ planPc \in {"call", "listPrefixes", "done"}
        /\ planPc = "done" =>
             /\ Len(plan) = Len(LevelAt(PrefixDepthOf))
             /\ \A i \in 1..Len(plan) :
                  /\ plan[i].inputs[1].prefix = LevelAt(PrefixDepthOf)[i]
                  /\ plan[i].source.prefix = LevelAt(PrefixDepthOf)[i]

\* The keys listObjects yields: the objects listed (all of them, or the
\* direct ones when recursive is false) that pass include and exclude, cut
\* at maxFiles.
ListedKeys ==
    LET all == Entries(BaseInput.recursive)
        objs == SelectSeq(all, LAMBDA e : ~e.isPrefix /\ Passes(e.key, BaseInput))
        keys == [i \in 1..Len(objs) |-> objs[i].key] IN
    IF BaseInput.maxFiles # 0 /\ Len(keys) > BaseInput.maxFiles
    THEN SubSeq(keys, 1, BaseInput.maxFiles)
    ELSE keys

\* C25: planBatch with grouping 'object' and maxPerTask k over n listed
\* objects ends with ceil(n/k) items; every item but the last has k inputs,
\* the last between 1 and k; the items' source.keys put end to end are the
\* listed keys in listing order; n = 0 gives no item.
C25_PacksOfMaxPerTask ==
    ObjectRun /\ planPc = "done" =>
        LET n == Len(ListedKeys)
            k == MaxPerTaskOf IN
        /\ Len(plan) = (n + k - 1) \div k
        /\ \A i \in 1..Len(plan) :
             /\ i < Len(plan) => Len(plan[i].inputs) = k
             /\ Len(plan[i].inputs) \in 1..k
             /\ [j \in 1..Len(plan[i].inputs) |-> plan[i].inputs[j].key] = plan[i].source.keys
        /\ Flatten([i \in 1..Len(plan) |-> plan[i].source.keys]) = ListedKeys

\* An object run over four listed objects in two pages has ended with two
\* full packs of two.
C25_Witness ==
    /\ ObjectRun /\ planPc = "done"
    /\ MaxPerTaskOf = 2
    /\ Len(ListedKeys) = 4
    /\ requests = 2
    /\ Len(plan) = 2

\* C29: planBatch of a spec whose io.batch.enabled is false yields exactly one
\* item, with source.single = true, inputs = spec.io.inputs, no localInputs
\* and args = spec.args, and ends, whatever io.inputs holds and without any
\* listing request.
C29_SingleItemWithoutListing ==
    ~planSpec.enabled /\ planPc # "idle" =>
        /\ planPc \in {"call", "done"}
        /\ requests = 0
        /\ planPc = "call" => plan = <<>>
        /\ planPc = "done" =>
             plan = <<[inputs |-> planSpec.inputs, localInputs |-> <<>>,
                       args |-> planSpec.args, source |-> [single |-> TRUE]]>>

\* A spec without batch, with two inputs, prefix grouping and placeholders in
\* its args, has yielded its item.
C29_Witness ==
    /\ ~planSpec.enabled
    /\ planPc = "done"
    /\ Len(planSpec.inputs) = 2
    /\ planSpec.grouping = "prefix"
    /\ planSpec.args # <<>>
    /\ Len(plan) = 1

\* ------------------------------------------------- dispatch of a picked task id
\* What a step of the completion loop does with the task id it picked
\* and whose exit code it read (part_003 97-114):
\*   with a resolver: when the sRem is over, the id is out of the completion
\*   set, the resolver is out of the table and is called, once, with
\*   [null, code], code being the member of the <taskId> set;
\*   without a resolver: when the sRem is over, the id is out of the
\*   completion set, the loop goes on and no call was resolved.
DispatchOfPickedId ==
    /\ loopPc = "remPresent" /\ loopPc' # "remPresent" =>
          /\ loopTask \notin completionSet'[completedNotificationQueueKey]
          /\ ~(/\ loopTask \in DOMAIN taskPromiseResolves'
               /\ taskPromiseResolves'[loopTask] = loopResolve[1])
          /\ loopResult # None /\ loopResult = exitCode[loopTask]
          /\ loopResolve' = <<>>
          /\ \A w \in DOMAIN wpc :
                wpc[w] # "returned" /\ wpc'[w] = "returned"
                => w = loopResolve[1] /\ wRes'[w] = WrapTuple(exitCode[loopTask])
    /\ loopPc = "remAbsent" /\ loopPc' # "remAbsent" =>
          /\ loopTask \notin completionSet'[completedNotificationQueueKey]
          /\ loopPc' # "crashed"
          /\ wpc' = wpc /\ wRes' = wRes

\* C30: for every task id the completion loop picks: with a resolver
\* installed, the resolver is removed from the table, the id is removed from
\* the completion set and the resolver is called exactly once with
\* [null, code], never while it is still in the table; without a resolver the
\* id is removed from the completion set and nothing is called.
C30_PickedIdIsDispatchedOnce == [][DispatchOfPickedId]_vars

\* ---------------------------------------------------------------- stop()
\* One waitForTask call, the worker and the connector loop as in SpecLive, and
\* a stop() (or client.close(), index.js 65-69) at any moment; stop() is the
\* caller's move, the fairness is that of the store and the timers only.
NextStop ==
    \/ NextLive
    \/ stop

SpecStop == InitLive /\ [][NextStop]_vars /\ FairLive

\* What the loop does once the flag is cleared (part_003 70, 79): it issues no
\* new poll and starts no new sleep, and the reply of a poll in flight is
\* followed by the exit, with no lookup and no call of a resolver.
NoPollAfterStop ==
    /\ ~running' /\ loopPc' # loopPc => loopPc' \notin {"poll", "sleep"}
    /\ ~running /\ loopPc = "poll" /\ loopPc' # "poll" =>
          /\ loopPc' = "exited"
          /\ UNCHANGED <<taskPromiseResolves, completionSet, wpc, wRes>>

\* C31: after stop() the completion loop starts no new poll: it completes at
\* most the iteration in progress and exits; every loop that was started and
\* then stopped eventually returns from run().
C31_StoppedLoopExits ==
    /\ [][NoPollAfterStop]_vars
    /\ (connectorRunning /\ ~running) ~> (loopPc = "exited")

\* ----------------------------------------------------- errors of a fast peek
\* A waitForTask call whose peek (initial or last-chance) is answered while
\* the exit code of its task is in the store: the read either yields the code,
\* and the call returns DONE, or it failed, and the call raises.
PeekOfStoredCode(w) ==
    /\ wpc[w] \in {"peek", "latepeek"} /\ wpc'[w] # wpc[w]
    /\ exitCode[wTask[w]] \in CodeStrs

\* C32: a store error during a fast peek is fatal to the wait call that issued
\* it: the call fails with the error instead of treating the task as not
\* finished (going on to wait, or returning TIMEOUT).
C32_PeekErrorFailsTheCall ==
    [][\A w \in Waiters :
          PeekOfStoredCode(w) =>
             \/ wpc'[w] = "raised"
             \/ /\ wpc'[w] = "returned"
                /\ wRes'[w] = [state |-> "DONE", code |-> ParseInt(exitCode[wTask[w]])]]_vars

\* ------------------------------------------- the result object of waitForMany
\* wait.js 114, 135, 141: the `done` property of the object waitForMany
\* resolves with is the done array itself, not a copy: what the caller reads
\* through it is the array's current content.  The `pending` property is a
\* copy, [...pending], taken at the resolve (manyRet.pending); manyRet.done is
\* the content the array had at that moment.
ReturnedDone == done

\* C34: after waitForMany has returned TIMEOUT, later completions do not change
\* the returned result: the returned done list keeps the content it had at
\* return, and no task id is in both the returned done and the returned pending.
C34_TimeoutResultIsFrozen ==
    manyRet.state = "TIMEOUT" =>
        /\ ReturnedDone = manyRet.done
        /\ DoneIds(ReturnedDone) \cap manyRet.pending = {}

\* ------------------------------------------------ cancelWait by the timer
\* The resolvers the table holds that call w did not install.
ResolversOfOthers(w) == {t \in DOMAIN taskPromiseResolves : taskPromiseResolves[t] # w}

\* C33: the cancelWait issued by the timeout timer of one waitForTask call
\* removes only the resolver that this call installed: a resolver installed by
\* a different caller for the same task id stays in the table, also when the
\* timer fires after its own call has returned.
C33_TimerCancelsOwnResolverOnly ==
    [][\A w \in Waiters :
          timer[w] = "armed" /\ timer'[w] = "fired" =>
             \A t \in ResolversOfOthers(w) :
                /\ t \in DOMAIN taskPromiseResolves'
                /\ taskPromiseResolves'[t] = taskPromiseResolves[t]]_vars

\* ------------------------------------------------- failed connect / open
\* The last attempt to get a channel for queue name q failed and nothing is
\* held for q: the channel open behind q's entry of channelPromises rejected,
\* or q has no entry and the connect behind connPromise rejected.
FailedAttempt(q) ==
    /\ channels[q] = 0
    /\ \/ channelPromises[q] # 0 /\ chanState[channelPromises[q]] = "failed"
       \/ /\ channelPromises[q] = 0 /\ conn = 0
          /\ connPromise # 0 /\ connState[connPromise] = "failed"

\* C35: a failed attempt to open the connection or a channel is not cached:
\* the checkQueue, publish or publishBurst called after amqplib.connect or
\* createChannel failed makes a new attempt (a connect or a channel open is in
\* flight for it) instead of failing with the old error.
C35_FailedOpenIsNotCached ==
    [][\A o \in OpIds :
          ( /\ amqpOp[o].pc = "idle" /\ amqpOp'[o].pc # "idle"
            /\ FailedAttempt(amqpOp'[o].q) )
          => /\ amqpOp'[o].pc = "init"
             /\ chanState'[amqpOp'[o].k] \in {"awaitConn", "opening"}]_vars

\* ------------------------------------------------ publishBurst and 'drain'
\* The connector with a broker that answers: every connect, channel open and
\* passive check in flight is eventually answered, and a full write buffer
\* eventually drains.  Calls, channel events and connection drops happen or
\* not.
FairAmqp ==
    /\ WF_vars(\E c \in ConnIds, ok \in BOOLEAN : connectReply(c, ok))
    /\ WF_vars(\E k \in ChanIds, ok \in BOOLEAN : createChannelReply(k, ok))
    /\ WF_vars(\E o \in OpIds, exists \in BOOLEAN : checkQueueReply(o, exists))
    /\ WF_vars(bufferDrains)

SpecAmqpLive == InitConnector /\ [][NextAmqp]_vars /\ FairAmqp

\* The publishBurst call o waits for 'drain' (amqpConnector.js 200).
AwaitsDrain(o) == amqpOp[o].kind = "publishBurst" /\ amqpOp[o].pc = "drain"

\* C36: a publishBurst that is waiting for 'drain' eventually returns or
\* raises, also when the channel closes or the connection drops while it
\* waits.
C36_DrainWaitEnds ==
    \A o \in OpIds : AwaitsDrain(o) ~> (amqpOp[o].pc \in {"returned", "raised"})

====
